---- MODULE Spec2Model ----
(***************************************************************************)
(* The view-compilation core: the node/element builder (buildView and the  *)
(* ViewBuilderVisitor), the attribute merge, CompileQuery and              *)
(* CompileView.getLocal.                                                   *)
(*                                                                         *)
(* Views and their compile nodes live in one arena, `views`: a view is     *)
(* named by its position in `views`, a compile element by the pair         *)
(* (view position, node index).  The template is not fixed in advance: the *)
(* visit actions draw the next template node, so the runs of the model are *)
(* the depth-first walks of all templates within the bounds.               *)
(***************************************************************************)
EXTENDS Integers, Sequences, FiniteSets, TLC

VARIABLES
    views,      \* arena of CompileView records, in creation order
    stack,      \* the active ViewBuilderVisitor instances (buildView calls)
    deps,       \* targetDependencies
    rets,       \* value returned by buildView, per view position
    tmpl,       \* the template nodes visited so far (the input, in visit order)
    run,        \* 1: first compilation, 2: second compilation of the same input
    pos,        \* second compilation: next entry of tmpl to visit
    out1,       \* output of the first compilation
    phase,      \* "build" | "done" (buildView has returned) | "finished" (afterNodes ran)
    query,      \* the CompileQuery of the component view, if it has a view query
    added,      \* the addValue calls made on the query so far (the input, in call order)
    lookup,     \* the last getLocal call and what it returned
    config,     \* what the component and the compiler configuration say
    targetStatements,   \* the statements finishView has emitted
    runtime,    \* the generated module at run time: the shared variable, the factory calls
    emitter,    \* a run of the TypeScript emitter: its input, its context, its outcome
    keyEvents   \* the KeyEventsPlugin: the event name, the listener, the last event

\* the state the node builder leaves alone
\* the state of the emitter and of the key events plugin
ext == <<emitter, keyEvents>>

aux == <<query, added, lookup, config, targetStatements, runtime, ext>>

vars == <<views, stack, deps, rets, tmpl, run, pos, out1, phase, query, added, lookup,
          config, targetStatements, runtime, emitter, keyEvents>>

(***************************************************************************)
(* Bounds                                                                  *)
(***************************************************************************)
MaxNodes == 3
MaxHtmlAttrs == 2
MaxDirectives == 2

(***************************************************************************)
(* Program constants                                                       *)
(***************************************************************************)
IMPLICIT_TEMPLATE_VAR == "$implicit"
\* attribute names and values are strings of characters: sequences of
\* one-character strings, ordered by their UTF-16 code units (Code)
CLASS_ATTR == <<"c", "l", "a", "s", "s">>
STYLE_ATTR == <<"s", "t", "y", "l", "e">>
NG_CONTAINER_TAG == "ng-container"

\* a null / absent ngContentIndex
NoIndex == 0 - 1
isPresentIndex(i) == i # NoIndex

\* o.NULL_EXPR, o.variable(name), o.THIS_EXPR.prop(name)
NULL_EXPR == [e |-> "null"]
\* a JavaScript null where an expression object is expected
null == [e |-> "none"]
Variable(name) == [e |-> "var", name |-> name]
ThisProp(name) == [e |-> "this.prop", name |-> name]
parentRenderNodeVar == Variable("parentRenderNode")
rootSelectorVar == Variable("rootSelector")

\* ViewProperties.projectableNodes.key(o.literal(index), ...)
ProjectableNodesKey(index) == [e |-> "projectableNodes.key", index |-> index]
ProjectableNodes == [e |-> "projectableNodes"]

\* the component's change detection strategy and genConfig.genDebugInfo
Config(changeDetection, genDebugInfo) ==
    [changeDetection |-> changeDetection, genDebugInfo |-> genDebugInfo]
DefaultConfig == Config("Default", FALSE)

\* no emitter run, no key events plugin in use
NoEmitter == [asts |-> <<>>]
NoKeyEvents == [eventName |-> <<>>]

\* the generated module before it is loaded
NotLoaded ==
    [loaded |-> FALSE, renderType |-> NULL_EXPR, computed |-> 0, calls |-> 0, topLevelCalls |-> 0]

\* a template literal `${prefix}${n}`
Name(prefix, n) == <<prefix, n>>

(***************************************************************************)
(* Compile elements                                                        *)
(***************************************************************************)
\* a reference to the compile node stored at position idx (from 0) of a view's
\* node list
ElRef(view, idx) == [view |-> view, idx |-> idx]

\* CompileElement.createNull(): no view, no parent, no render node
NullEl == [view |-> 0, idx |-> 0]
isNull(ref) == ref.view = 0

NoComponent == [present |-> FALSE]
Component(encapsulation, slots) ==
    [present |-> TRUE, encapsulation |-> encapsulation, ngContentSelectors |-> slots]

\* the record of a compile node
NodeIn(vs, ref) == vs[ref.view].nodes[ref.idx + 1]
ParentOf(vs, ref) == NodeIn(vs, ref).parent
ComponentOf(vs, ref) == IF isNull(ref) THEN NoComponent ELSE NodeIn(vs, ref).component

\* compileElement.appElement: the generated _appEl_<n> field
AppElementOf(nodeIndex) == ThisProp(Name("_appEl_", nodeIndex))

getViewTypeHostFirst(isHost, embeddedTemplateIndex) ==
    IF isHost THEN "HOST"
    ELSE IF embeddedTemplateIndex > 0 THEN "EMBEDDED"
    ELSE "COMPONENT"

getViewType(isHost, embeddedTemplateIndex) ==
    IF embeddedTemplateIndex > 0 THEN "EMBEDDED"
    ELSE IF isHost THEN "HOST"
    ELSE "COMPONENT"

\* new CompileView(component, ..., viewIndex, declarationElement, templateVariableBindings)
NewCompileView(isHost, viewIndex, declarationElement, templateVariableBindings) ==
    [ isHost |-> isHost,
      viewIndex |-> viewIndex,
      viewType |-> getViewType(isHost, viewIndex),
      className |-> Name("_View_", viewIndex),
      declarationElement |-> declarationElement,
      templateVariableBindings |-> templateVariableBindings,
      locals |-> { <<templateVariableBindings[i][2],
                     [e |-> "context.prop", name |-> templateVariableBindings[i][1]]>> :
                   i \in { j \in 1..Len(templateVariableBindings) :
                           \A k \in (j+1)..Len(templateVariableBindings) :
                              templateVariableBindings[k][2] # templateVariableBindings[j][2] } },
      nodes |-> <<>>,
      fields |-> <<>>,
      rootNodesOrAppElements |-> <<>>,
      createMethod |-> <<>>,
      dirtyParentQueriesMethod |-> <<>>,
      updateViewQueriesMethod |-> <<>>,
      animationBindingsMethod |-> <<>>,
      injectorGetMethod |-> <<>>,
      updateContentQueriesMethod |-> <<>>,
      detectChangesInInputsMethod |-> <<>>,
      detectChangesRenderPropertiesMethod |-> <<>>,
      afterContentLifecycleCallbacksMethod |-> <<>>,
      afterViewLifecycleCallbacksMethod |-> <<>>,
      destroyMethod |-> <<>>,
      detachMethod |-> <<>>,
      eventHandlerMethods |-> <<>>,
      getters |-> <<>>,
      disposables |-> <<>>,
      subscriptions |-> <<>> ]

(***************************************************************************)
(* Attribute merge                                                         *)
(* A JavaScript object {[key: string]: string} is a sequence of <<key,     *)
(* value>> pairs with distinct keys, in insertion order.                   *)
(***************************************************************************)
\* UTF-16 code units of the characters used
Code ==
    [ ch \in {" ", "!", "$", ",", "-", "a", "b", "c", "d", "e", "i", "l", "s", "t", "x", "y"} |->
        CASE ch = " " -> 32 [] ch = "!" -> 33 [] ch = "$" -> 36 [] ch = "," -> 44
          [] ch = "-" -> 45 [] ch = "a" -> 97 [] ch = "b" -> 98 [] ch = "c" -> 99
          [] ch = "d" -> 100 [] ch = "e" -> 101 [] ch = "i" -> 105 [] ch = "l" -> 108
          [] ch = "s" -> 115 [] ch = "t" -> 116 [] ch = "x" -> 120 [] ch = "y" -> 121 ]

HasKey(obj, key) == \E i \in 1..Len(obj) : obj[i][1] = key
Get(obj, key) == obj[CHOOSE i \in 1..Len(obj) : obj[i][1] = key][2]
\* obj[key] = value
Put(obj, key, value) ==
    IF HasKey(obj, key)
    THEN [i \in 1..Len(obj) |-> IF obj[i][1] = key THEN <<key, value>> ELSE obj[i]]
    ELSE Append(obj, <<key, value>>)

\* the comparison of Array.prototype.sort() without a comparator: elements are
\* compared as strings, by code units, a proper prefix first
RECURSIVE StringLess(_, _)
StringLess(a, b) ==
    IF Len(b) = 0 THEN FALSE
    ELSE IF Len(a) = 0 THEN TRUE
    ELSE IF Code[Head(a)] # Code[Head(b)] THEN Code[Head(a)] < Code[Head(b)]
    ELSE StringLess(Tail(a), Tail(b))

\* String([name, value]) = name + "," + value
EntryToString(entry) == entry[1] \o <<",">> \o entry[2]

RECURSIVE InsertSorted(_, _)
InsertSorted(sorted, entry) ==
    IF Len(sorted) = 0 THEN <<entry>>
    ELSE IF StringLess(EntryToString(entry), EntryToString(Head(sorted)))
         THEN <<entry>> \o sorted
         ELSE <<Head(sorted)>> \o InsertSorted(Tail(sorted), entry)

\* ListWrapper.sort(l) with no compareFn: l.sort()
RECURSIVE ListWrapper_sort(_)
ListWrapper_sort(l) ==
    IF Len(l) = 0 THEN <<>>
    ELSE InsertSorted(ListWrapper_sort(SubSeq(l, 1, Len(l) - 1)), l[Len(l)])

mapToKeyValueArray(data) == ListWrapper_sort(data)

mergeAttributeValueKeepFirst(attrName, attrValue1, attrValue2) ==
    IF attrName = CLASS_ATTR \/ attrName = STYLE_ATTR
    THEN attrValue1 \o <<" ">> \o attrValue2
    ELSE attrValue1
mergeAttributeValueSwapped(attrName, attrValue1, attrValue2) ==
    IF attrName = CLASS_ATTR \/ attrName = STYLE_ATTR
    THEN attrValue2 \o <<" ">> \o attrValue1
    ELSE attrValue2
mergeAttributeValue(attrName, attrValue1, attrValue2) ==
    IF attrName = CLASS_ATTR \/ attrName = STYLE_ATTR
    THEN attrValue1 \o <<" ">> \o attrValue2
    ELSE attrValue2

RECURSIVE _readHtmlAttrs(_)
_readHtmlAttrs(attrs) ==
    IF Len(attrs) = 0 THEN <<>>
    ELSE Put(_readHtmlAttrs(SubSeq(attrs, 1, Len(attrs) - 1)),
             attrs[Len(attrs)][1], attrs[Len(attrs)][2])

\* directiveMeta.hostAttributes folded into result, key by key
RECURSIVE MergeHostAttributes(_, _)
MergeHostAttributes(result, hostAttributes) ==
    IF Len(hostAttributes) = 0 THEN result
    ELSE LET name == Head(hostAttributes)[1]
             value == Head(hostAttributes)[2]
         IN  MergeHostAttributes(
                 Put(result, name,
                     IF HasKey(result, name)
                     THEN mergeAttributeValue(name, Get(result, name), value)
                     ELSE value),
                 Tail(hostAttributes))

RECURSIVE MergeDirectives(_, _)
MergeDirectives(result, directives) ==
    IF Len(directives) = 0 THEN result
    ELSE MergeDirectives(MergeHostAttributes(result, Head(directives).hostAttributes),
                         Tail(directives))

_mergeHtmlAndDirectiveAttrs(declaredHtmlAttrs, directives) ==
    mapToKeyValueArray(MergeDirectives(declaredHtmlAttrs, directives))

(***************************************************************************)
(* ViewBuilderVisitor helpers                                              *)
(***************************************************************************)
_isNgContainer(vs, ref, view) ==
    /\ ~isNull(ref)
    /\ NodeIn(vs, ref).sourceAst.name = NG_CONTAINER_TAG
    /\ ref.view = view

_getOuterContainerOrSelfOneStep(vs, ref, view) ==
    IF _isNgContainer(vs, ParentOf(vs, ref), view) THEN ParentOf(vs, ref) ELSE ref
RECURSIVE _getOuterContainerOrSelf(_, _, _)
_getOuterContainerOrSelf(vs, ref, view) ==
    IF _isNgContainer(vs, ParentOf(vs, ref), view)
    THEN _getOuterContainerOrSelf(vs, ParentOf(vs, ref), view)
    ELSE ref

_getOuterContainerParentOrSelfNoWalk(vs, el, view) == el
RECURSIVE _getOuterContainerParentOrSelf(_, _, _)
_getOuterContainerParentOrSelf(vs, el, view) ==
    IF _isNgContainer(vs, el, view)
    THEN _getOuterContainerParentOrSelf(vs, ParentOf(vs, el), view)
    ELSE el

_isRootNodeAlways(parent, thisView) == TRUE
_isRootNode(parent, thisView) == parent.view # thisView

\* parent.addContentNode(ngContentIndex, expr)
addContentNode(vs, parent, ngContentIndex, expr) ==
    [vs EXCEPT ![parent.view].nodes[parent.idx + 1].contentNodesByNgContentIndex[ngContentIndex + 1] =
        Append(@, expr)]

_addRootNodeAndProjectOuter(vs, thisView, node) ==
    LET projectedNode == _getOuterContainerOrSelf(vs, node, node.view)
        parent == ParentOf(vs, projectedNode)
        ngContentIndex == NodeIn(vs, projectedNode).sourceAst.ngContentIndex
        n == NodeIn(vs, projectedNode)
        registered == IF n.isElement /\ n.hasViewContainer THEN n.appElement ELSE n.renderNode
    IN  IF _isRootNode(parent, thisView)
        THEN IF vs[thisView].viewType # "COMPONENT"
             THEN [vs EXCEPT ![thisView].rootNodesOrAppElements = Append(@, registered)]
             ELSE vs
        ELSE IF ComponentOf(vs, parent).present /\ isPresentIndex(ngContentIndex)
             THEN addContentNode(vs, parent, ngContentIndex, registered)
             ELSE vs

_addRootNodeAndProject(vs, thisView, node) ==
    LET projectedNode == _getOuterContainerOrSelf(vs, node, node.view)
        parent == ParentOf(vs, projectedNode)
        ngContentIndex == NodeIn(vs, projectedNode).sourceAst.ngContentIndex
        n == NodeIn(vs, node)
        registered == IF n.isElement /\ n.hasViewContainer THEN n.appElement ELSE n.renderNode
    IN  IF _isRootNode(parent, thisView)
        THEN IF vs[thisView].viewType # "COMPONENT"
             THEN [vs EXCEPT ![thisView].rootNodesOrAppElements = Append(@, registered)]
             ELSE vs
        ELSE IF ComponentOf(vs, parent).present /\ isPresentIndex(ngContentIndex)
             THEN addContentNode(vs, parent, ngContentIndex, registered)
             ELSE vs

_getParentRenderNode(vs, thisView, parentIn) ==
    LET parent == _getOuterContainerParentOrSelf(vs, parentIn, parentIn.view)
    IN  IF _isRootNode(parent, thisView)
        THEN IF vs[thisView].viewType = "COMPONENT" THEN parentRenderNodeVar ELSE NULL_EXPR
        ELSE IF ComponentOf(vs, parent).present
                /\ ComponentOf(vs, parent).encapsulation # "Native"
             THEN NULL_EXPR
             ELSE NodeIn(vs, parent).renderNode

(***************************************************************************)
(* The visitor's position                                                  *)
(***************************************************************************)
\* number of compile nodes created so far, over all views
RECURSIVE SumNodes(_, _)
SumNodes(vs, k) == IF k = 0 THEN 0 ELSE Len(vs[k].nodes) + SumNodes(vs, k - 1)

Top == stack[Len(stack)]
CurView == Top.view

\* buildView: the parent handed to templateVisitAll for a view's top-level nodes
TopLevelParent(vs, view) ==
    IF isNull(vs[view].declarationElement)
    THEN vs[view].declarationElement
    ELSE ParentOf(vs, vs[view].declarationElement)

\* the parent context of the node visited next
CurParent ==
    IF Len(Top.open) > 0
    THEN ElRef(CurView, Top.open[Len(Top.open)])
    ELSE TopLevelParent(views, CurView)

\* this.view.nodes.length: the index given to the next compile node of a view
NextNodeIndexGlobal(vs, v) == SumNodes(vs, Len(vs))
NextNodeIndex(vs, v) == Len(vs[v].nodes)

\* new ViewBuilderVisitor(view, targetDependencies)
NewVisitor(view) == [view |-> view, nestedViewCount |-> 0, open |-> <<>>]

\* number of template nodes in the input so far
TemplateSize == Cardinality({ i \in 1..Len(tmpl) : tmpl[i].kind # "end" })

\* the next template node: drawn in the first compilation, read back in the second
Input(ev) ==
    IF run = 1
    THEN /\ ev.kind # "end" => TemplateSize < MaxNodes
         /\ tmpl' = Append(tmpl, ev)
         /\ pos' = pos
    ELSE /\ pos <= Len(tmpl)
         /\ tmpl[pos] = ev
         /\ pos' = pos + 1
         /\ tmpl' = tmpl

EndOfChildren == [kind |-> "end"]

(***************************************************************************)
(* Visits                                                                  *)
(***************************************************************************)
\* visitText / visitBoundText -> _visitText
VisitText(bound, ngContentIndex) ==
    /\ phase = "build"
    /\ Input([kind |-> IF bound THEN "BoundText" ELSE "Text", ngContentIndex |-> ngContentIndex])
    /\ LET v == CurView
           nodeIndex == NextNodeIndex(views, v)
           fieldName == Name("_text_", nodeIndex)
           renderNode == ThisProp(fieldName)
           compileNode ==
               [ isElement |-> FALSE, parent |-> CurParent, view |-> v, nodeIndex |-> nodeIndex,
                 renderNode |-> renderNode,
                 sourceAst |-> [kind |-> "Text", name |-> "", ngContentIndex |-> ngContentIndex] ]
           createRenderNode ==
               [ op |-> "createText", target |-> renderNode,
                 parentRenderNode |-> _getParentRenderNode(views, v, CurParent),
                 value |-> IF bound THEN "" ELSE "text", debugNode |-> nodeIndex ]
           vs1 == [views EXCEPT ![v].fields = Append(@, [name |-> fieldName, type |-> "renderText"]),
                                ![v].nodes = Append(@, compileNode),
                                ![v].createMethod = Append(@, createRenderNode)]
       IN  views' = _addRootNodeAndProject(vs1, v, ElRef(v, Len(views[v].nodes)))
    /\ UNCHANGED <<stack, deps, rets, run, out1, phase, aux>>

VisitNgContent(index, ngContentIndex) ==
    /\ phase = "build"
    /\ Input([kind |-> "NgContent", index |-> index, ngContentIndex |-> ngContentIndex])
    /\ LET v == CurView
           parent == CurParent
           parentRenderNode == _getParentRenderNode(views, v, parent)
           nodesExpression == ProjectableNodesKey(index)
       IN  views' =
             IF parentRenderNode # NULL_EXPR
             THEN [views EXCEPT ![v].createMethod =
                      Append(@, [op |-> "projectNodes", parentRenderNode |-> parentRenderNode,
                                 nodes |-> [e |-> "flattenNestedViewRenderNodes",
                                            of |-> nodesExpression]])]
             ELSE IF _isRootNode(parent, v)
             THEN IF views[v].viewType # "COMPONENT"
                  THEN [views EXCEPT ![v].rootNodesOrAppElements = Append(@, nodesExpression)]
                  ELSE views
             ELSE IF ComponentOf(views, parent).present /\ isPresentIndex(ngContentIndex)
                  THEN addContentNode(views, parent, ngContentIndex, nodesExpression)
                  ELSE views
    /\ UNCHANGED <<stack, deps, rets, run, out1, phase, aux>>

\* directiveAst.directive: the CompileDirectiveMetadata of a directive
DirectiveMeta(d) ==
    [ isComponent |-> d[1], hostAttributes |-> d[2], type |-> d[3], encapsulation |-> d[4],
      ngContentSelectors |-> d[5], entryComponents |-> d[6] ]
DirectiveMetas(directiveAsts) ==
    [ i \in 1..Len(directiveAsts) |-> DirectiveMeta(directiveAsts[i]) ]

\* directives.find(directive => directive.isComponent)
FindComponent(directives) ==
    IF \E i \in 1..Len(directives) : directives[i].isComponent
    THEN LET i == CHOOSE k \in 1..Len(directives) :
                     /\ directives[k].isComponent
                     /\ \A j \in 1..(k - 1) : ~directives[j].isComponent
         IN  Component(directives[i].encapsulation, directives[i].ngContentSelectors)
    ELSE NoComponent

\* the element's creation call
CreateRenderNodeExprByName(vs, v, nodeIndex, name, parent) ==
    IF name = NG_CONTAINER_TAG
    THEN [op |-> "createTemplateAnchor", parentRenderNode |-> _getParentRenderNode(vs, v, parent),
          debugNode |-> nodeIndex]
    ELSE IF nodeIndex = 0 /\ vs[v].viewType = "HOST"
    THEN [op |-> "selectOrCreateHostElement", name |-> name, rootSelector |-> rootSelectorVar,
          debugNode |-> nodeIndex]
    ELSE [op |-> "createElement", parentRenderNode |-> _getParentRenderNode(vs, v, parent),
          name |-> name, debugNode |-> nodeIndex]
CreateRenderNodeExpr(vs, v, nodeIndex, name, parent) ==
    IF nodeIndex = 0 /\ vs[v].viewType = "HOST"
    THEN [op |-> "selectOrCreateHostElement", name |-> name, rootSelector |-> rootSelectorVar,
          debugNode |-> nodeIndex]
    ELSE IF name = NG_CONTAINER_TAG
    THEN [op |-> "createTemplateAnchor", parentRenderNode |-> _getParentRenderNode(vs, v, parent),
          debugNode |-> nodeIndex]
    ELSE [op |-> "createElement", parentRenderNode |-> _getParentRenderNode(vs, v, parent),
          name |-> name, debugNode |-> nodeIndex]

\* one setElementAttribute statement per merged attribute, none for <ng-container>
SetAttributeStmts(name, renderNode, attrNameAndValues) ==
    IF name # NG_CONTAINER_TAG
    THEN [ i \in 1..Len(attrNameAndValues) |->
             [ op |-> "setElementAttribute", renderNode |-> renderNode,
               attrName |-> attrNameAndValues[i][1], attrValue |-> attrNameAndValues[i][2] ] ]
    ELSE <<>>

\* the dependencies of a nested component: its view factory, then its entry components
ComponentDeps(directives) ==
    IF FindComponent(directives).present
    THEN LET c == directives[CHOOSE k \in 1..Len(directives) :
                                /\ directives[k].isComponent
                                /\ \A j \in 1..(k - 1) : ~directives[j].isComponent]
         IN  <<[dep |-> "ViewFactoryDependency", comp |-> c.type,
                placeholder |-> Name("viewFactory_" \o c.type, 0)]>>
             \o [ i \in 1..Len(c.entryComponents) |->
                    [dep |-> "ComponentFactoryDependency", comp |-> c.entryComponents[i],
                     placeholder |-> c.entryComponents[i]] ]
    ELSE <<>>

\* visitElement, up to the visit of the children
VisitElement(name, attrs, directiveAsts, hasViewContainer, ngContentIndex) ==
    /\ phase = "build"
    /\ Input([kind |-> "Element", name |-> name, attrs |-> attrs, directives |-> directiveAsts,
              hasViewContainer |-> hasViewContainer, ngContentIndex |-> ngContentIndex])
    /\ LET v == CurView
           directives == DirectiveMetas(directiveAsts)
           parent == CurParent
           nodeIndex == NextNodeIndex(views, v)
           createRenderNodeExpr == CreateRenderNodeExpr(views, v, nodeIndex, name, parent)
           fieldName == Name("_el_", nodeIndex)
           renderNode == ThisProp(fieldName)
           component == FindComponent(directives)
           htmlAttrs == _readHtmlAttrs(attrs)
           attrNameAndValues == _mergeHtmlAndDirectiveAttrs(htmlAttrs, directives)
           compViewExpr == IF component.present
                           THEN Variable(Name("compView_", nodeIndex)) ELSE NULL_EXPR
           compileElement ==
               [ isElement |-> TRUE, parent |-> parent, view |-> v, nodeIndex |-> nodeIndex,
                 renderNode |-> renderNode,
                 sourceAst |-> [kind |-> "Element", name |-> name,
                                ngContentIndex |-> ngContentIndex],
                 component |-> component, hasViewContainer |-> hasViewContainer,
                 appElement |-> AppElementOf(nodeIndex),
                 hasEmbeddedView |-> FALSE, embeddedView |-> 0,
                 contentNodesByNgContentIndex |->
                     IF component.present
                     THEN [i \in 1..component.ngContentSelectors |-> <<>>] ELSE <<>>,
                 compViewExpr |-> compViewExpr ]
           stmts == <<[op |-> "set", target |-> renderNode, value |-> createRenderNodeExpr]>>
                    \o SetAttributeStmts(name, renderNode, attrNameAndValues)
                    \o IF component.present
                       THEN <<[op |-> "declCompView", var |-> compViewExpr,
                               factory |-> ComponentDeps(directives)[1].placeholder,
                               appElement |-> compileElement.appElement]>>
                       ELSE <<>>
           vs1 == [views EXCEPT ![v].fields = Append(@, [name |-> fieldName, type |-> "renderElement"]),
                                ![v].createMethod = @ \o stmts,
                                ![v].nodes = Append(@, compileElement)]
       IN  /\ views' = _addRootNodeAndProject(vs1, v, ElRef(v, Len(views[v].nodes)))
           /\ deps' = deps \o ComponentDeps(directives)
           /\ stack' = [stack EXCEPT ![Len(stack)].open = Append(@, Len(views[v].nodes))]
    /\ UNCHANGED <<rets, run, out1, phase, aux>>

\* createFlatArray(expressions)
createFlatArray(expressions) == [e |-> "flatArray", of |-> expressions]

\* visitElement, after the visit of the children
LeaveElementBucketsAlways ==
    /\ phase = "build"
    /\ Len(Top.open) > 0
    /\ Input(EndOfChildren)
    /\ LET v == CurView
           compileElement == NodeIn(views, ElRef(v, Top.open[Len(Top.open)]))
           codeGenContentNodes ==
               [e |-> "literalArr",
                of |-> [i \in 1..Len(compileElement.contentNodesByNgContentIndex) |->
                          createFlatArray(compileElement.contentNodesByNgContentIndex[i])]]
       IN  views' =
             IF compileElement.compViewExpr # NULL_EXPR
             THEN [views EXCEPT ![v].createMethod =
                      Append(@, [op |-> "create", var |-> compileElement.compViewExpr,
                                 contentNodes |-> codeGenContentNodes])]
             ELSE views
    /\ stack' = [stack EXCEPT ![Len(stack)].open = SubSeq(@, 1, Len(@) - 1)]
    /\ UNCHANGED <<deps, rets, run, out1, phase, aux>>
LeaveElement ==
    /\ phase = "build"
    /\ Len(Top.open) > 0
    /\ Input(EndOfChildren)
    /\ LET v == CurView
           compileElement == NodeIn(views, ElRef(v, Top.open[Len(Top.open)]))
           codeGenContentNodes ==
               IF views[v].isHost
               THEN ProjectableNodes
               ELSE [e |-> "literalArr",
                     of |-> [i \in 1..Len(compileElement.contentNodesByNgContentIndex) |->
                               createFlatArray(compileElement.contentNodesByNgContentIndex[i])]]
       IN  views' =
             IF compileElement.compViewExpr # NULL_EXPR
             THEN [views EXCEPT ![v].createMethod =
                      Append(@, [op |-> "create", var |-> compileElement.compViewExpr,
                                 contentNodes |-> codeGenContentNodes])]
             ELSE views
    /\ stack' = [stack EXCEPT ![Len(stack)].open = SubSeq(@, 1, Len(@) - 1)]
    /\ UNCHANGED <<deps, rets, run, out1, phase, aux>>

\* ast.variables.map(varAst => [value or $implicit, name])
TemplateVariableBindings(variables) ==
    [ i \in 1..Len(variables) |->
        << IF variables[i][2] # "" THEN variables[i][2] ELSE IMPLICIT_TEMPLATE_VAR,
           variables[i][1] >> ]

\* this.view.viewIndex + this.nestedViewCount, after nestedViewCount++
EmbeddedViewIndexNoCount(visitor) == views[visitor.view].viewIndex + 1
EmbeddedViewIndexGlobal(visitor) == Len(views) + (IF run = 2 THEN Len(out1.views) ELSE 0)
EmbeddedViewIndex(visitor) == views[visitor.view].viewIndex + visitor.nestedViewCount + 1

\* visitEmbeddedTemplate, up to the call of buildView on the embedded view
VisitEmbeddedTemplate(variables, hasViewContainer, ngContentIndex) ==
    /\ phase = "build"
    /\ Input([kind |-> "EmbeddedTemplate", variables |-> variables,
              hasViewContainer |-> hasViewContainer, ngContentIndex |-> ngContentIndex])
    /\ LET v == CurView
           parent == CurParent
           nodeIndex == NextNodeIndex(views, v)
           fieldName == Name("_anchor_", nodeIndex)
           renderNode == ThisProp(fieldName)
           newView == Len(views) + 1
           compileElement ==
               [ isElement |-> TRUE, parent |-> parent, view |-> v, nodeIndex |-> nodeIndex,
                 renderNode |-> renderNode,
                 sourceAst |-> [kind |-> "EmbeddedTemplate", name |-> "",
                                ngContentIndex |-> ngContentIndex],
                 component |-> NoComponent, hasViewContainer |-> hasViewContainer,
                 appElement |-> AppElementOf(nodeIndex),
                 hasEmbeddedView |-> TRUE, embeddedView |-> newView,
                 contentNodesByNgContentIndex |-> <<>>,
                 compViewExpr |-> NULL_EXPR ]
           embeddedView ==
               NewCompileView(views[v].isHost, EmbeddedViewIndex(Top),
                              ElRef(v, Len(views[v].nodes)),
                              TemplateVariableBindings(variables))
           vs1 == [views EXCEPT
                     ![v].fields = Append(@, [name |-> fieldName, type |-> "renderComment"]),
                     ![v].createMethod =
                         Append(@, [op |-> "set", target |-> renderNode,
                                    value |-> [op |-> "createTemplateAnchor",
                                               parentRenderNode |->
                                                   _getParentRenderNode(views, v, parent),
                                               debugNode |-> nodeIndex]]),
                     ![v].nodes = Append(@, compileElement)]
       IN  /\ views' = Append(vs1, embeddedView)
           /\ stack' = Append([stack EXCEPT ![Len(stack)].nestedViewCount = @ + 1],
                              NewVisitor(newView))
    /\ UNCHANGED <<deps, rets, run, out1, phase, aux>>

\* this.nestedViewCount += buildView(embeddedView, ...)
AddNestedDropped(nestedViewCount, returned) == nestedViewCount
AddNested(nestedViewCount, returned) == nestedViewCount + returned

\* buildView returns builderVisitor.nestedViewCount; for an embedded view the
\* rest of visitEmbeddedTemplate follows
ReturnBuildView ==
    /\ phase = "build"
    /\ Len(Top.open) = 0
    /\ Input(EndOfChildren)
    /\ rets' = (CurView :> Top.nestedViewCount) @@ rets
    /\ IF Len(stack) = 1
       THEN /\ phase' = "done"
            /\ UNCHANGED <<views, stack>>
       ELSE LET caller == stack[Len(stack) - 1]
                compileElement == views[CurView].declarationElement
            IN  /\ stack' = [SubSeq(stack, 1, Len(stack) - 1) EXCEPT
                               ![Len(stack) - 1].nestedViewCount =
                                   AddNested(@, Top.nestedViewCount)]
                /\ views' = _addRootNodeAndProject(views, caller.view, compileElement)
                /\ phase' = phase
    /\ UNCHANGED <<deps, run, out1, aux>>

\* visitAttr, visitDirective, visitEvent, visitReference, visitVariable,
\* visitDirectiveProperty, visitElementProperty: return null
VisitNoop(kind) ==
    /\ phase = "build"
    /\ Input([kind |-> kind])
    /\ UNCHANGED <<views, stack, deps, rets, run, out1, phase, aux>>

(***************************************************************************)
(* CompileQuery                                                            *)
(* The values of a query are a tree: a ViewQueryValues holds, in order,    *)
(* value expressions and the ViewQueryValues of embedded views.            *)
(***************************************************************************)
MaxValues == 3

\* getPropertyInView(property, callingView, definedView): the property of
\* definedView as seen from callingView, one `parent` per view in between
RECURSIVE ViewsBetween(_, _, _)
ViewsBetween(vs, callingView, definedView) ==
    IF callingView = definedView \/ vs[callingView].declarationElement.view = 0
    THEN 0
    ELSE 1 + ViewsBetween(vs, vs[callingView].declarationElement.view, definedView)

getPropertyInView(vs, property, callingView, definedView) ==
    IF callingView = definedView
    THEN property
    ELSE [e |-> "inView", property |-> property,
          parents |-> ViewsBetween(vs, callingView, definedView)]

\* new ViewQueryValues(view, values); x instanceof ViewQueryValues
ViewQueryValues(view, values) == [e |-> "ViewQueryValues", view |-> view, values |-> values]
IsViewQueryValues(x) == x.e = "ViewQueryValues"

\* new CompileQuery(meta, queryList, ownerDirectiveExpression, view)
NewCompileQuery(first, queryList, ownerDirectiveExpression, view) ==
    [ first |-> first,
      propertyName |-> "prop",
      queryList |-> queryList,
      ownerDirectiveExpression |-> ownerDirectiveExpression,
      view |-> view,
      values |-> ViewQueryValues(view, <<>>) ]

\* a view without view queries
NoQuery == NewCompileQuery(FALSE, null, null, 0)

\* addValue: the declaration elements between this.view and the originating
\* view, outermost first
elPathOneStep(vs, view, thisView) ==
    IF view = 0 \/ view = thisView
    THEN <<>>
    ELSE <<vs[view].declarationElement>>

RECURSIVE elPath(_, _, _)
elPath(vs, view, thisView) ==
    IF view = 0 \/ view = thisView
    THEN <<>>
    ELSE Append(elPath(vs, vs[view].declarationElement.view, thisView),
                vs[view].declarationElement)

\* addValue: elPath.forEach(...) followed by viewValues.values.push(value)
PushAlongAtRoot(vs, viewValues, path, value) ==
    [viewValues EXCEPT !.values = Append(@, value)]
RECURSIVE PushAlongReuseAny(_, _, _, _)
PushAlongReuseAny(vs, viewValues, path, value) ==
    IF path = <<>>
    THEN [viewValues EXCEPT !.values = Append(@, value)]
    ELSE LET embeddedView == NodeIn(vs, Head(path)).embeddedView
             same == { k \in 1..Len(viewValues.values) :
                         /\ IsViewQueryValues(viewValues.values[k])
                         /\ viewValues.values[k].view = embeddedView }
         IN  IF same # {}
             THEN LET n == CHOOSE k \in same : \A j \in same : j <= k
                  IN  [viewValues EXCEPT
                         !.values[n] = PushAlongReuseAny(vs, @, Tail(path), value)]
             ELSE [viewValues EXCEPT
                     !.values = Append(@, PushAlongReuseAny(vs, ViewQueryValues(embeddedView, <<>>),
                                                            Tail(path), value))]
RECURSIVE PushAlong(_, _, _, _)
PushAlong(vs, viewValues, path, value) ==
    IF path = <<>>
    THEN [viewValues EXCEPT !.values = Append(@, value)]
    ELSE LET embeddedView == NodeIn(vs, Head(path)).embeddedView
             n == Len(viewValues.values)
         IN  IF /\ n > 0
                /\ IsViewQueryValues(viewValues.values[n])
                /\ viewValues.values[n].view = embeddedView
             THEN [viewValues EXCEPT
                     !.values[n] = PushAlong(vs, @, Tail(path), value)]
             ELSE [viewValues EXCEPT
                     !.values = Append(@, PushAlong(vs, ViewQueryValues(embeddedView, <<>>),
                                                    Tail(path), value))]

\* queryListForDirtyExpr.callMethod('setDirty', []).toStmt()
SetDirtyStmt(vs, q, view) ==
    [op |-> "setDirty", target |-> getPropertyInView(vs, q.queryList, view, q.view)]

\* query.addValue(value, view), called while the nodes of `view` are being
\* built; the value is an expression over the fields of that view
AddValueFrom(view) ==
    /\ phase = "build"
    /\ query.view # 0
    /\ Len(added) < MaxValues
    /\ LET value == ThisProp(Name("_match_", Len(added)))
           path == elPath(views, view, query.view)
       IN  /\ query' = [query EXCEPT !.values = PushAlong(views, @, path, value)]
           /\ views' = IF Len(path) > 0
                       THEN [views EXCEPT ![view].dirtyParentQueriesMethod =
                                Append(@, SetDirtyStmt(views, query, view))]
                       ELSE views
           /\ added' = Append(added, <<value, view>>)
    /\ UNCHANGED <<stack, deps, rets, tmpl, run, pos, out1, phase, lookup,
                 config, targetStatements, runtime, ext>>

\* addValue called by a compile element of the view being built
AddValue == AddValueFrom(CurView)

\* o.replaceVarInExpression(o.THIS_EXPR.name, o.variable('nestedView'), expr);
\* the body of a function expression is left as it is
replaceVarInExpression(expr) ==
    IF expr.e = "this.prop"
    THEN [e |-> "var.prop", var |-> "nestedView", name |-> expr.name]
    ELSE IF expr.e = "mapNestedViews"
    THEN [expr EXCEPT !.on = [e |-> "var.prop", var |-> "nestedView", name |-> expr.on.name]]
    ELSE expr

mapNestedViews(declarationAppElement, className, expressions) ==
    [ e |-> "mapNestedViews", on |-> declarationAppElement, viewClass |-> className,
      body |-> [ i \in 1..Len(expressions) |-> replaceVarInExpression(expressions[i]) ] ]

\* every entry maps to one expression, so ListWrapper.flatten has nothing to
\* flatten
RECURSIVE createQueryValues(_, _)
createQueryValues(vs, viewValues) ==
    [ i \in 1..Len(viewValues.values) |->
        LET entry == viewValues.values[i]
        IN  IF IsViewQueryValues(entry)
            THEN mapNestedViews(NodeIn(vs, vs[entry.view].declarationElement).appElement,
                                vs[entry.view].className,
                                createQueryValues(vs, entry))
            ELSE entry ]

_isStaticAlways(q) == TRUE
_isStatic(q) ==
    ~ \E i \in 1..Len(q.values.values) : IsViewQueryValues(q.values.values[i])

\* afterChildren: updateStmts
UpdateStmts(vs, q) ==
    << [op |-> "reset", target |-> q.queryList, values |-> createQueryValues(vs, q.values)] >>
    \o (IF q.ownerDirectiveExpression # null
        THEN << [op |-> "set",
                 target |-> [e |-> "prop", of |-> q.ownerDirectiveExpression,
                             name |-> q.propertyName],
                 value |-> IF q.first THEN [e |-> "prop", of |-> q.queryList, name |-> "first"]
                           ELSE q.queryList] >>
        ELSE <<>>)
    \o (IF ~q.first
        THEN << [op |-> "notifyOnChanges", target |-> q.queryList] >>
        ELSE <<>>)

\* query.afterChildren(view.createMethod, view.updateViewQueriesMethod)
afterChildren(vs, q) ==
    IF q.first /\ _isStatic(q)
    THEN [vs EXCEPT ![q.view].createMethod = @ \o UpdateStmts(vs, q)]
    ELSE [vs EXCEPT ![q.view].updateViewQueriesMethod =
             Append(@, [op |-> "if",
                        condition |-> [e |-> "prop", of |-> q.queryList, name |-> "dirty"],
                        trueCase |-> UpdateStmts(vs, q)])]

\* view.afterNodes(), once the node tree of the component is built
AfterNodes ==
    /\ phase = "done"
    /\ query.view # 0
    /\ views' = afterChildren(views, query)
    /\ phase' = "finished"
    /\ UNCHANGED <<stack, deps, rets, tmpl, run, pos, out1, aux>>

(***************************************************************************)
(* CompileView.getLocal                                                    *)
(***************************************************************************)
\* EventHandlerVars.event
EventHandlerVars_event == Variable("$event")

\* the lookup before any call
NoLookup == [view |-> 0, name |-> "", result |-> null]

\* view.locals.get(name)
HasLocal(locals, name) == \E entry \in locals : entry[1] = name
LocalsGet(locals, name) == (CHOOSE entry \in locals : entry[1] = name)[2]

\* the view at which the while loop of getLocal stops
RECURSIVE LastViewSearchedOutermost(_, _, _)
LastViewSearchedOutermost(vs, currView, name) ==
    IF vs[currView].declarationElement.view # 0
    THEN LastViewSearchedOutermost(vs, vs[currView].declarationElement.view, name)
    ELSE currView

RECURSIVE LastViewSearched(_, _, _)
LastViewSearched(vs, currView, name) ==
    IF ~HasLocal(vs[currView].locals, name) /\ vs[currView].declarationElement.view # 0
    THEN LastViewSearched(vs, vs[currView].declarationElement.view, name)
    ELSE currView

\* the scope walk of getLocal
SearchLocals(vs, view, name) ==
    LET currView == LastViewSearched(vs, view, name)
    IN  IF HasLocal(vs[currView].locals, name)
        THEN getPropertyInView(vs, LocalsGet(vs[currView].locals, name), view, currView)
        ELSE null

getLocalLocalsFirst(vs, view, name) ==
    IF SearchLocals(vs, view, name) # null
    THEN SearchLocals(vs, view, name)
    ELSE IF name = EventHandlerVars_event.name THEN EventHandlerVars_event ELSE null

getLocal(vs, view, name) ==
    IF name = EventHandlerVars_event.name
    THEN EventHandlerVars_event
    ELSE SearchLocals(vs, view, name)

\* a call view.getLocal(name)
GetLocal(view, name) ==
    /\ view \in 1..Len(views)
    /\ lookup' = [view |-> view, name |-> name, result |-> getLocal(views, view, name)]
    /\ UNCHANGED <<views, stack, deps, rets, tmpl, run, pos, out1, phase, query, added,
                 config, targetStatements, runtime, ext>>

(***************************************************************************)
(* The view class and the view factory                                     *)
(* A CompileMethod is the sequence of its statements; isEmpty() and        *)
(* finish() read that sequence.                                            *)
(***************************************************************************)
\* a statement added by the binding of directives, events and lifecycle
\* hooks; `method` names the CompileMethod it was added to, `reads` the local
\* variables of detectChangesInternal it reads
BoundStmt(method) ==
    [ op |-> "stmt", method |-> method,
      reads |-> IF method = "detectChangesInInputsMethod" THEN {"changed", "changes"}
                ELSE IF method = "detectChangesRenderPropertiesMethod" THEN {"valUnwrapper"}
                ELSE {} ]

\* the CompileMethods that binding fills, apart from those of change detection;
\* an event handler is a ClassMethod of its own
LifecycleMethods ==
    << "injectorGetMethod", "dirtyParentQueriesMethod", "destroyMethod", "detachMethod",
       "eventHandler", "emptyEventHandler" >>

\* the seven CompileMethods generateDetectChangesMethod reads
AllDetectChangesMethods ==
    << "animationBindingsMethod", "detectChangesInInputsMethod", "updateContentQueriesMethod",
       "afterContentLifecycleCallbacksMethod", "detectChangesRenderPropertiesMethod",
       "updateViewQueriesMethod", "afterViewLifecycleCallbacksMethod" >>

\* three of the CompileMethods generateDetectChangesMethod reads
DetectChangesMethods ==
    << "detectChangesInInputsMethod", "updateContentQueriesMethod",
       "afterViewLifecycleCallbacksMethod" >>

\* method.addStmt(stmt); view.eventHandlerMethods.push(new o.ClassMethod(...))
AddBound(view, method) ==
    IF method = "eventHandler"
    THEN [view EXCEPT !.eventHandlerMethods =
             Append(@, [name |-> "_handle_click", body |-> <<BoundStmt(method)>>])]
    ELSE IF method = "emptyEventHandler"
    THEN [view EXCEPT !.eventHandlerMethods =
             Append(@, [name |-> "_handle_blur", body |-> <<>>])]
    ELSE [view EXCEPT ![method] = Append(@, BoundStmt(method))]

\* one statement for every method whose bit is set in mask
RECURSIVE AddAllBound(_, _, _)
AddAllBound(view, methods, mask) ==
    IF Len(methods) = 0 THEN view
    ELSE AddAllBound(IF mask % 2 = 1 THEN AddBound(view, Head(methods)) ELSE view,
                     Tail(methods), mask \div 2)

RECURSIVE Pow2(_)
Pow2(n) == IF n = 0 THEN 1 ELSE 2 * Pow2(n - 1)

\* the binding of one view, between buildView and finishView
BindView(view, methods, mask) ==
    /\ phase = "done"
    /\ view \in 1..Len(views)
    /\ mask \in 1..(Pow2(Len(methods)) - 1)
    /\ views' = [views EXCEPT ![view] = AddAllBound(@, methods, mask)]
    /\ phase' = "bound"
    /\ UNCHANGED <<stack, deps, rets, tmpl, run, pos, out1, aux>>

getChangeDetectionModeOfComponent(view, cfg) ==
    IF cfg.changeDetection = "Default" THEN "CheckAlways" ELSE "CheckOnce"

getChangeDetectionMode(view, cfg) ==
    IF view.viewType = "COMPONENT"
    THEN IF cfg.changeDetection = "Default" THEN "CheckAlways" ELSE "CheckOnce"
    ELSE "CheckAlways"

\* (<CompileElement>view.nodes[0]).appElement
undefined == [e |-> "undefined"]
FirstAppElement(view) ==
    IF view.nodes[1].isElement THEN view.nodes[1].appElement ELSE undefined

generateCreateMethod(view) ==
    (IF view.viewType = "COMPONENT"
     THEN << [op |-> "declare", name |-> parentRenderNodeVar.name,
              value |-> [e |-> "createViewRoot"]] >>
     ELSE <<>>)
    \o view.createMethod
    \o << [op |-> "init",
           rootNodesOrAppElements |-> createFlatArray(view.rootNodesOrAppElements),
           allNodes |-> [i \in 1..Len(view.nodes) |-> view.nodes[i].renderNode],
           disposables |-> view.disposables,
           subscriptions |-> view.subscriptions],
          [op |-> "return",
           value |-> IF view.viewType = "HOST" THEN FirstAppElement(view) ELSE NULL_EXPR] >>

addReturnValuefNotEmptyAlways(statements, value) ==
    statements \o <<[op |-> "return", value |-> value]>>

addReturnValuefNotEmpty(statements, value) ==
    IF Len(statements) > 0
    THEN statements \o <<[op |-> "return", value |-> value]>>
    ELSE statements

\* o.findReadVarNames(stmts)
RECURSIVE findReadVarNames(_)
findReadVarNames(stmts) ==
    IF Len(stmts) = 0 THEN {}
    ELSE LET s == Head(stmts)
         IN  (IF s.op = "if" THEN findReadVarNames(s.trueCase)
              ELSE IF s.op = "stmt" THEN s.reads
              ELSE {})
             \cup findReadVarNames(Tail(stmts))

NotThrowOnChange == [e |-> "not", of |-> Variable("throwOnChange")]

generateDetectChangesMethodRenderFirst(view) ==
    IF /\ Len(view.detectChangesInInputsMethod) = 0
       /\ Len(view.updateContentQueriesMethod) = 0
       /\ Len(view.afterContentLifecycleCallbacksMethod) = 0
       /\ Len(view.detectChangesRenderPropertiesMethod) = 0
       /\ Len(view.updateViewQueriesMethod) = 0
       /\ Len(view.afterViewLifecycleCallbacksMethod) = 0
    THEN <<>>
    ELSE view.animationBindingsMethod
         \o view.detectChangesInInputsMethod
         \o view.detectChangesRenderPropertiesMethod
         \o <<[op |-> "detectContentChildrenChanges"]>>
         \o view.updateContentQueriesMethod \o view.afterContentLifecycleCallbacksMethod
         \o <<[op |-> "detectViewChildrenChanges"]>>
         \o view.updateViewQueriesMethod \o view.afterViewLifecycleCallbacksMethod
generateDetectChangesMethod(view) ==
    IF /\ Len(view.animationBindingsMethod) = 0
       /\ Len(view.detectChangesInInputsMethod) = 0
       /\ Len(view.updateContentQueriesMethod) = 0
       /\ Len(view.afterContentLifecycleCallbacksMethod) = 0
       /\ Len(view.detectChangesRenderPropertiesMethod) = 0
       /\ Len(view.updateViewQueriesMethod) = 0
       /\ Len(view.afterViewLifecycleCallbacksMethod) = 0
    THEN <<>>
    ELSE LET afterContentStmts ==
                 view.updateContentQueriesMethod \o view.afterContentLifecycleCallbacksMethod
             afterViewStmts ==
                 view.updateViewQueriesMethod \o view.afterViewLifecycleCallbacksMethod
             stmts ==
                 view.animationBindingsMethod
                 \o view.detectChangesInInputsMethod
                 \o <<[op |-> "detectContentChildrenChanges"]>>
                 \o (IF Len(afterContentStmts) > 0
                     THEN <<[op |-> "if", condition |-> NotThrowOnChange,
                             trueCase |-> afterContentStmts]>>
                     ELSE <<>>)
                 \o view.detectChangesRenderPropertiesMethod
                 \o <<[op |-> "detectViewChildrenChanges"]>>
                 \o (IF Len(afterViewStmts) > 0
                     THEN <<[op |-> "if", condition |-> NotThrowOnChange,
                             trueCase |-> afterViewStmts]>>
                     ELSE <<>>)
             readVars == findReadVarNames(stmts)
             varStmts ==
                 (IF "changed" \in readVars
                  THEN <<[op |-> "declare", name |-> "changed", value |-> [e |-> "true"]]>>
                  ELSE <<>>)
                 \o (IF "changes" \in readVars
                     THEN <<[op |-> "declare", name |-> "changes", value |-> NULL_EXPR]>>
                     ELSE <<>>)
                 \o (IF "valUnwrapper" \in readVars
                     THEN <<[op |-> "declare", name |-> "valUnwrapper",
                             value |-> [e |-> "new ValueUnwrapper"]]>>
                     ELSE <<>>)
         IN  varStmts \o stmts

\* viewMethods.filter((method) => method.body.length > 0)
RECURSIVE FilterNonEmpty(_)
FilterNonEmpty(methods) ==
    IF Len(methods) = 0 THEN <<>>
    ELSE (IF Len(Head(methods).body) > 0 THEN <<Head(methods)>> ELSE <<>>)
         \o FilterNonEmpty(Tail(methods))

\* o.variable(`renderType_${view.component.type.name}`)
renderCompTypeVar == Variable("renderType_Cmp")

createViewClass(view, cfg, nodeDebugInfosVar) ==
    LET superConstructorArgs ==
            << Variable(view.className), renderCompTypeVar, view.viewType,
               Variable("viewUtils"), Variable("parentInjector"), Variable("declarationEl"),
               getChangeDetectionMode(view, cfg) >>
            \o (IF cfg.genDebugInfo THEN <<nodeDebugInfosVar>> ELSE <<>>)
        viewMethods ==
            << [name |-> "createInternal", body |-> generateCreateMethod(view)],
               [name |-> "injectorGetInternal",
                body |-> addReturnValuefNotEmpty(view.injectorGetMethod,
                                                 Variable("notFoundResult"))],
               [name |-> "detectChangesInternal", body |-> generateDetectChangesMethod(view)],
               [name |-> "dirtyParentQueriesInternal", body |-> view.dirtyParentQueriesMethod],
               [name |-> "destroyInternal", body |-> view.destroyMethod],
               [name |-> "detachInternal", body |-> view.detachMethod] >>
            \o view.eventHandlerMethods
    IN  [ op |-> "class",
          name |-> view.className,
          parent |-> IF cfg.genDebugInfo THEN "DebugAppView" ELSE "AppView",
          fields |-> view.fields,
          getters |-> view.getters,
          constructorMethod |-> [op |-> "super", args |-> superConstructorArgs],
          methods |-> FilterNonEmpty(viewMethods) ]

\* createViewFactory: initRenderCompTypeStmts
initRenderCompTypeStmtsUnguarded(view, cfg) ==
    IF view.viewIndex = 0
    THEN << [op |-> "set", target |-> renderCompTypeVar,
             value |-> [e |-> "createRenderComponentType",
                        templateUrl |-> IF cfg.genDebugInfo THEN "templateUrl" ELSE ""]] >>
    ELSE <<>>

initRenderCompTypeStmts(view, cfg) ==
    IF view.viewIndex = 0
    THEN << [op |-> "if",
             condition |-> [e |-> "identical", lhs |-> renderCompTypeVar, rhs |-> NULL_EXPR],
             trueCase |->
                << [op |-> "set", target |-> renderCompTypeVar,
                    value |-> [e |-> "createRenderComponentType",
                               templateUrl |-> IF cfg.genDebugInfo THEN "templateUrl"
                                               ELSE ""]] >>] >>
    ELSE <<>>

createViewFactory(view, viewClass, cfg) ==
    [ op |-> "factory",
      name |-> Name("viewFactory_", view.viewIndex),
      body |-> initRenderCompTypeStmts(view, cfg)
               \o <<[op |-> "return", value |-> [e |-> "new", class |-> viewClass.name]]>> ]

createViewTopLevelStmts(view, cfg, targetStmts) ==
    LET nodeDebugInfosVar ==
            IF cfg.genDebugInfo THEN Variable(Name("nodeDebugInfos_", view.viewIndex))
            ELSE NULL_EXPR
        debugStmts ==
            IF cfg.genDebugInfo
            THEN <<[op |-> "declare", name |-> nodeDebugInfosVar.name,
                    value |-> [e |-> "nodeDebugInfos", nodes |-> Len(view.nodes)]]>>
            ELSE <<>>
        renderTypeStmts ==
            IF view.viewIndex = 0
            THEN <<[op |-> "declare", name |-> renderCompTypeVar.name, value |-> NULL_EXPR]>>
            ELSE <<>>
        viewClass == createViewClass(view, cfg, nodeDebugInfosVar)
    IN  targetStmts \o debugStmts \o renderTypeStmts
            \o <<viewClass, createViewFactory(view, viewClass, cfg)>>

\* view.afterNodes() of any view: the view queries belong to the component view
afterNodes(vs, q, view) == IF q.view = view THEN afterChildren(vs, q) ELSE vs

\* the embedded views of a view's nodes, in node order
RECURSIVE EmbeddedViewsOfReversed(_)
EmbeddedViewsOfReversed(nodes) ==
    IF Len(nodes) = 0 THEN <<>>
    ELSE EmbeddedViewsOfReversed(Tail(nodes))
         \o (IF Head(nodes).isElement /\ Head(nodes).hasEmbeddedView
             THEN <<Head(nodes).embeddedView>> ELSE <<>>)

RECURSIVE EmbeddedViewsOf(_)
EmbeddedViewsOf(nodes) ==
    IF Len(nodes) = 0 THEN <<>>
    ELSE (IF Head(nodes).isElement /\ Head(nodes).hasEmbeddedView
          THEN <<Head(nodes).embeddedView>> ELSE <<>>)
         \o EmbeddedViewsOf(Tail(nodes))

\* finishView(view, targetStatements); st holds the views and targetStatements
RECURSIVE finishView(_, _, _, _)
RECURSIVE FinishEach(_, _, _, _)
FinishEach(st, q, cfg, embeddedViews) ==
    IF Len(embeddedViews) = 0 THEN st
    ELSE FinishEach(finishView(st, q, cfg, Head(embeddedViews)), q, cfg, Tail(embeddedViews))

finishView(st, q, cfg, view) ==
    LET vs == afterNodes(st.views, q, view)
        stmts == createViewTopLevelStmts(vs[view], cfg, st.targetStatements)
    IN  FinishEach([views |-> vs, targetStatements |-> stmts], q, cfg,
                   EmbeddedViewsOf(vs[view].nodes))

\* the generated statements at run time: only the shared render type variable
\* is followed
RECURSIVE Exec(_, _)
Exec(stmts, rt) ==
    IF Len(stmts) = 0 THEN rt
    ELSE LET s == Head(stmts)
             after ==
                 IF s.op = "declare" /\ s.name = renderCompTypeVar.name
                 THEN [rt EXCEPT !.renderType = s.value]
                 ELSE IF s.op = "set" /\ s.target = renderCompTypeVar
                 THEN [rt EXCEPT !.renderType = s.value, !.computed = @ + 1]
                 ELSE IF s.op = "if" /\ s.condition.e = "identical"
                 THEN IF rt.renderType = s.condition.rhs THEN Exec(s.trueCase, rt) ELSE rt
                 ELSE rt
         IN  Exec(Tail(stmts), after)

\* finishView(view, targetStatements) on the component's top-level view; the
\* generated module is then loaded.  The create method of a host view reads
\* view.nodes[0], which throws when the view has no node.
FinishView ==
    /\ phase \in {"done", "bound"}
    /\ run = 1
    /\ IF views[1].viewType = "HOST" /\ Len(views[1].nodes) = 0
       THEN /\ phase' = "failed"
            /\ UNCHANGED <<views, targetStatements, runtime>>
       ELSE LET st == finishView([views |-> views, targetStatements |-> targetStatements],
                                 query, config, 1)
            IN  /\ views' = st.views
                /\ targetStatements' = st.targetStatements
                /\ runtime' = Exec(st.targetStatements, [NotLoaded EXCEPT !.loaded = TRUE])
                /\ phase' = "finished"
    /\ UNCHANGED <<stack, deps, rets, tmpl, run, pos, out1, query, added, lookup, config, ext>>

MaxCalls == 3

\* a call of the i-th generated statement, a view factory
CallFactory(i) ==
    /\ phase = "finished"
    /\ i \in 1..Len(targetStatements)
    /\ targetStatements[i].op = "factory"
    /\ runtime.calls < MaxCalls
    /\ runtime' = [Exec(targetStatements[i].body, runtime) EXCEPT
                      !.calls = @ + 1,
                      !.topLevelCalls =
                          IF targetStatements[i].name = Name("viewFactory_", 0)
                          THEN @ + 1 ELSE @]
    /\ UNCHANGED <<views, stack, deps, rets, tmpl, run, pos, out1, phase, query, added, lookup,
                   config, targetStatements, ext>>

(***************************************************************************)
(* Two compilations of one template                                        *)
(***************************************************************************)
Output == [views |-> views, deps |-> deps, rets |-> rets]

CompileAgain ==
    /\ phase = "done"
    /\ run = 1
    /\ out1' = Output
    /\ run' = 2
    /\ pos' = 1
    /\ views' = <<NewCompileView(views[1].isHost, 0, NullEl, <<>>)>>
    /\ stack' = <<NewVisitor(1)>>
    /\ deps' = <<>>
    /\ rets' = <<>>
    /\ phase' = "build"
    /\ UNCHANGED <<tmpl, aux>>

Init ==
    /\ \E isHost \in BOOLEAN : views = <<NewCompileView(isHost, 0, NullEl, <<>>)>>
    /\ stack = <<NewVisitor(1)>>
    /\ deps = <<>>
    /\ rets = <<>>
    /\ tmpl = <<>>
    /\ run = 1
    /\ pos = 1
    /\ out1 = <<>>
    /\ phase = "build"
    /\ query = NoQuery
    /\ added = <<>>
    /\ lookup = NoLookup
    /\ config = DefaultConfig
    /\ targetStatements = <<>>
    /\ runtime = NotLoaded
    /\ emitter = NoEmitter
    /\ keyEvents = NoKeyEvents

\* createQueryList(queryMeta, directiveInstance, propertyName, compileView)
createQueryList(view, propertyName) ==
    [view EXCEPT !.fields = Append(@, [name |-> propertyName, type |-> "QueryList"]),
                 !.createMethod = Append(@, [op |-> "set", target |-> ThisProp(propertyName),
                                             value |-> [op |-> "newQueryList"]])]

\* the constructor of a component view that has one view query: either
\* declared in component.viewQueries, or asked for by a constructor parameter
\* of the component (diDeps)
InitQuery ==
    /\ \E first \in BOOLEAN, declared \in BOOLEAN :
          LET view == NewCompileView(FALSE, 0, NullEl, <<>>)
              propName == Name("_viewQuery_sel_", 0)
          IN  IF declared
              THEN /\ views = <<createQueryList(view, propName)>>
                   /\ query = NewCompileQuery(first, ThisProp(propName),
                                              ThisProp("context"), 1)
              ELSE /\ views = <<view>>
                   /\ query = NewCompileQuery(
                                 first,
                                 [e |-> "componentConstructorViewQueries.key", index |-> 0],
                                 null, 1)
    /\ stack = <<NewVisitor(1)>>
    /\ deps = <<>>
    /\ rets = <<>>
    /\ tmpl = <<>>
    /\ run = 1
    /\ pos = 1
    /\ out1 = <<>>
    /\ phase = "build"
    /\ added = <<>>
    /\ lookup = NoLookup
    /\ config = DefaultConfig
    /\ targetStatements = <<>>
    /\ runtime = NotLoaded
    /\ emitter = NoEmitter
    /\ keyEvents = NoKeyEvents

\* the top-level view of a component or of a host, for a component with either
\* change detection strategy
InitClass ==
    /\ \E isHost \in BOOLEAN : views = <<NewCompileView(isHost, 0, NullEl, <<>>)>>
    /\ \E changeDetection \in {"Default", "OnPush"} : config = Config(changeDetection, FALSE)
    /\ stack = <<NewVisitor(1)>>
    /\ deps = <<>>
    /\ rets = <<>>
    /\ tmpl = <<>>
    /\ run = 1
    /\ pos = 1
    /\ out1 = <<>>
    /\ phase = "build"
    /\ query = NoQuery
    /\ added = <<>>
    /\ lookup = NoLookup
    /\ targetStatements = <<>>
    /\ runtime = NotLoaded
    /\ emitter = NoEmitter
    /\ keyEvents = NoKeyEvents

\* the top-level view of a host, or of a component that declares a view query
InitFinish ==
    /\ \E isHost \in BOOLEAN, first \in BOOLEAN :
          LET view == NewCompileView(isHost, 0, NullEl, <<>>)
              propName == Name("_viewQuery_sel_", 0)
          IN  IF isHost
              THEN views = <<view>> /\ query = NoQuery
              ELSE /\ views = <<createQueryList(view, propName)>>
                   /\ query = NewCompileQuery(first, ThisProp(propName),
                                              ThisProp("context"), 1)
    /\ \E genDebugInfo \in BOOLEAN : config = Config("Default", genDebugInfo)
    /\ stack = <<NewVisitor(1)>>
    /\ deps = <<>>
    /\ rets = <<>>
    /\ tmpl = <<>>
    /\ run = 1
    /\ pos = 1
    /\ out1 = <<>>
    /\ phase = "build"
    /\ added = <<>>
    /\ lookup = NoLookup
    /\ targetStatements = <<>>
    /\ runtime = NotLoaded
    /\ emitter = NoEmitter
    /\ keyEvents = NoKeyEvents

(***************************************************************************)
(* The inputs of the visits                                                *)
(***************************************************************************)
\* A directive is handed to a visit as the tuple <<isComponent, hostAttributes,
\* type name, encapsulation, number of ngContentSelectors, entryComponents>>, a
\* template variable as <<name, value>>, an attribute as <<name, value>>.
PlainDirective(hostAttributes) == <<FALSE, hostAttributes, "Dir", "Emulated", 0, <<>>>>
ComponentDirective(type, encapsulation, slots, entryComponents) ==
    <<TRUE, <<>>, type, encapsulation, slots, entryComponents>>

\* Spec: every node kind, nested and sibling embedded templates
Next ==
    \/ \E bound \in BOOLEAN : VisitText(bound, NoIndex)
    \/ VisitNgContent(0, NoIndex)
    \/ \E name \in {"div", NG_CONTAINER_TAG} : VisitElement(name, <<>>, <<>>, FALSE, NoIndex)
    \/ VisitElement("div", <<>>, <<ComponentDirective("Cmp", "Emulated", 1, <<"Entry">>)>>,
                    FALSE, NoIndex)
    \/ LeaveElement
    \/ \E variables \in {<<>>, << <<"x", "">> >>} :
          VisitEmbeddedTemplate(variables, TRUE, NoIndex)
    \/ ReturnBuildView
    \/ VisitNoop("Attr")

Spec == Init /\ [][Next]_vars

\* SpecTwice: a template is compiled, then compiled again
NextTwice ==
    \/ VisitText(FALSE, NoIndex)
    \/ VisitNgContent(0, NoIndex)
    \/ VisitElement("div", << <<CLASS_ATTR, <<"a">>>> >>,
                    <<PlainDirective(<< <<CLASS_ATTR, <<"b">>>>, <<<<"i", "d">>, <<"x">>>> >>)>>,
                    FALSE, NoIndex)
    \/ VisitElement("div", <<>>, <<ComponentDirective("Cmp", "Emulated", 1, <<"Entry">>)>>,
                    FALSE, 0)
    \/ LeaveElement
    \/ VisitEmbeddedTemplate(<< <<"x", "">> >>, TRUE, NoIndex)
    \/ ReturnBuildView
    \/ CompileAgain

SpecTwice == Init /\ [][NextTwice]_vars

\* SpecProj: ng-container chains, component elements and content projection
NextProj ==
    \/ \E i \in {NoIndex, 0, 1} : VisitText(FALSE, i)
    \/ \E i \in {NoIndex, 0, 1} : VisitElement(NG_CONTAINER_TAG, <<>>, <<>>, FALSE, i)
    \/ VisitElement("div", <<>>, <<ComponentDirective("Cmp", "Emulated", 2, <<>>)>>,
                    FALSE, NoIndex)
    \/ VisitElement("div", <<>>, <<>>, TRUE, 0)
    \/ VisitNgContent(0, 1)
    \/ LeaveElement
    \/ VisitEmbeddedTemplate(<<>>, TRUE, 0)
    \/ ReturnBuildView

SpecProj == Init /\ [][NextProj]_vars

\* SpecAttrs: one element, with every list of HTML attributes and directives
\* within the bounds
SeqsUpTo(S, n) == UNION { [1..k -> S] : k \in 0..n }
AttrNames == {CLASS_ATTR, STYLE_ATTR, <<"a">>, <<"a", "!">>}
\* an element's HTML attributes carry pairwise different names
HtmlAttrLists ==
    { l \in SeqsUpTo(AttrNames \X {<<"a">>}, MaxHtmlAttrs) :
        \A i, j \in DOMAIN l : l[i][1] = l[j][1] => i = j }
HostAttributeChoices ==
    { <<entry>> : entry \in {CLASS_ATTR, STYLE_ATTR, <<"a">>} \X {<<"b">>} }
        \cup { << <<CLASS_ATTR, <<"c">>>> >>,
                << <<CLASS_ATTR, <<"b">>>>, <<<<"a">>, <<"c">>>> >> }
DirectiveLists ==
    SeqsUpTo({ PlainDirective(hostAttributes) : hostAttributes \in HostAttributeChoices },
             MaxDirectives)

NextAttrs ==
    \/ \E attrs \in HtmlAttrLists, directives \in DirectiveLists :
          /\ Len(tmpl) = 0
          /\ VisitElement("div", attrs, directives, FALSE, NoIndex)
    \/ LeaveElement
    \/ ReturnBuildView

SpecAttrs == Init /\ [][NextAttrs]_vars

\* SpecQuery: a component with one view query; values are added while the
\* nodes are built, afterNodes runs when the tree is complete
NextQuery ==
    \/ VisitElement("div", <<>>, <<>>, FALSE, NoIndex)
    \/ LeaveElement
    \/ VisitEmbeddedTemplate(<<>>, TRUE, NoIndex)
    \/ ReturnBuildView
    \/ AddValue
    \/ AfterNodes

SpecQuery == InitQuery /\ [][NextQuery]_vars

\* SpecLocal: embedded templates declaring variables; names are looked up
\* once the view tree is built
LocalNames == {"x", "y", "$event"}
NextLocal ==
    \/ \E variables \in {<<>>, << <<"x", "">> >>, << <<"x", "v">> >>, << <<"$event", "v">> >>} :
          VisitEmbeddedTemplate(variables, TRUE, NoIndex)
    \/ ReturnBuildView
    \/ /\ phase = "done"
       /\ \E view \in 1..Len(views), name \in LocalNames : GetLocal(view, name)

SpecLocal == Init /\ [][NextLocal]_vars

\* SpecClass: a tree of views is built, one of them gets statements bound
\* into its methods, the classes are generated
NextClass ==
    \/ VisitEmbeddedTemplate(<<>>, TRUE, NoIndex)
    \/ ReturnBuildView
    \/ \E view \in 1..Len(views), mask \in 1..63 : BindView(view, LifecycleMethods, mask)
    \/ \E view \in 1..Len(views), mask \in 1..7 : BindView(view, DetectChangesMethods, mask)
    \/ FinishView

SpecClass == InitClass /\ [][NextClass]_vars

\* SpecFinish: a tree of views is built and finished, the generated factories
\* are called
NextFinish ==
    \/ VisitElement("div", <<>>, <<>>, FALSE, NoIndex)
    \/ LeaveElement
    \/ VisitEmbeddedTemplate(<<>>, TRUE, NoIndex)
    \/ ReturnBuildView
    \/ FinishView
    \/ \E i \in 1..Len(targetStatements) : CallFactory(i)

SpecFinish == InitFinish /\ [][NextFinish]_vars

\* SpecRender: ng-containers, components with emulated and with native
\* encapsulation, embedded templates
NextRender ==
    \/ VisitText(FALSE, NoIndex)
    \/ \E name \in {"div", NG_CONTAINER_TAG} : VisitElement(name, <<>>, <<>>, FALSE, NoIndex)
    \/ \E encapsulation \in {"Emulated", "Native"} :
          VisitElement("div", <<>>, <<ComponentDirective("Cmp", encapsulation, 0, <<>>)>>,
                       FALSE, NoIndex)
    \/ LeaveElement
    \/ VisitEmbeddedTemplate(<<>>, TRUE, NoIndex)
    \/ ReturnBuildView

SpecRender == Init /\ [][NextRender]_vars

\* SpecContent: ng-content outlets under component elements, ng-containers and
\* embedded templates
NextContent ==
    \/ \E i \in {NoIndex, 0} : VisitElement(NG_CONTAINER_TAG, <<>>, <<>>, FALSE, i)
    \/ VisitElement("div", <<>>, <<ComponentDirective("Cmp", "Emulated", 2, <<>>)>>,
                    FALSE, NoIndex)
    \/ VisitNgContent(0, 1)
    \/ LeaveElement
    \/ VisitEmbeddedTemplate(<<>>, TRUE, NoIndex)
    \/ ReturnBuildView

SpecContent == Init /\ [][NextContent]_vars

\* SpecCreate: elements and ng-containers, with and without attributes, in
\* host, component and embedded views
NextCreate ==
    \/ \E name \in {"div", NG_CONTAINER_TAG}, attrs \in {<<>>, << <<<<"a">>, <<"a">>>> >>} :
          VisitElement(name, attrs, <<>>, FALSE, NoIndex)
    \/ LeaveElement
    \/ VisitEmbeddedTemplate(<<>>, TRUE, NoIndex)
    \/ ReturnBuildView

SpecCreate == Init /\ [][NextCreate]_vars

\* SpecComp: component elements with projected and unprojected children
NextComp ==
    \/ \E i \in {NoIndex, 0} : VisitText(FALSE, i)
    \/ VisitElement("div", <<>>, <<ComponentDirective("Cmp", "Emulated", 1, <<>>)>>,
                    FALSE, NoIndex)
    \/ VisitElement(NG_CONTAINER_TAG, <<>>, <<>>, FALSE, 0)
    \/ LeaveElement
    \/ VisitEmbeddedTemplate(<<>>, TRUE, 0)
    \/ ReturnBuildView

SpecComp == Init /\ [][NextComp]_vars

\* SpecTree: one view query and a tree of embedded views; addValue is called
\* in any order with values of any of the views built so far
NextTree ==
    \/ VisitEmbeddedTemplate(<<>>, TRUE, NoIndex)
    \/ ReturnBuildView
    \/ \E view \in 1..(MaxNodes + 1) : view <= Len(views) /\ AddValueFrom(view)

SpecTree == InitQuery /\ [][NextTree]_vars

\* SpecDetect: a component view whose seven change-detection buffers are
\* filled in every combination, then finished
NextDetect ==
    \/ ReturnBuildView
    \/ \E mask \in 1..127 : BindView(1, AllDetectChangesMethods, mask)
    \/ FinishView

SpecDetect == InitClass /\ [][NextDetect]_vars

(***************************************************************************)
(* The TypeScript emitter (ts_emitter.ts).  An output AST node is a record *)
(* whose `ast` field says what it is an instance of -- "Type",             *)
(* "Expression", "Statement" -- and whose `node` field names its class.    *)
(* The context holds the text printed so far, the imports of the visitor   *)
(* and the error thrown, if any: once an error is thrown nothing more is   *)
(* printed.                                                                *)
(***************************************************************************)
MaxAsts == 2

_debugModuleUrl == "asset://debug/lib"

\* a string that is null or undefined
absent == "(absent)"

\* `import${n}`
ImportPrefix(n) == "import" \o <<"0", "1", "2", "3", "4", "5", "6", "7", "8", "9">>[n + 1]

\* new CompileIdentifierMetadata({name, moduleUrl})
Identifier(name, moduleUrl) == [name |-> name, moduleUrl |-> moduleUrl]

BuiltinType(name) == [ast |-> "Type", node |-> "BuiltinType", name |-> name]
ExternalType(value, typeParams) ==
    [ast |-> "Type", node |-> "ExternalType", value |-> value, typeParams |-> typeParams]
ArrayType(of) == [ast |-> "Type", node |-> "ArrayType", of |-> of]
MapType(valueType) == [ast |-> "Type", node |-> "MapType", valueType |-> valueType]
LiteralExpr(value) == [ast |-> "Expression", node |-> "LiteralExpr", value |-> value]
ExternalExpr(value) ==
    [ast |-> "Expression", node |-> "ExternalExpr", value |-> value, typeParams |-> <<>>]
CastExpr(value, type) == [ast |-> "Expression", node |-> "CastExpr", value |-> value, type |-> type]
InvokeMethodExpr(receiver, builtin) ==
    [ast |-> "Expression", node |-> "InvokeMethodExpr", receiver |-> receiver, builtin |-> builtin]
DeclareVarStmt(name, value, type, final) ==
    [ast |-> "Statement", node |-> "DeclareVarStmt", name |-> name, value |-> value,
     type |-> type, final |-> final]

\* EmitterVisitorContext.createRoot(exportedVars), with the importsWithPrefixes
\* of the visitor
createRoot(exportedVars) ==
    [text |-> <<>>, imports |-> <<>>, exportedVars |-> exportedVars, error |-> ""]

Thrown(ctx) == ctx.error # ""
print(ctx, part) == IF Thrown(ctx) THEN ctx ELSE [ctx EXCEPT !.text = Append(@, part)]
println(ctx, part) == print(print(ctx, part), "\n")
throw(ctx, error) == IF Thrown(ctx) THEN ctx ELSE [ctx EXCEPT !.error = error]

\* visitBuiltintType: the switch on type.name
visitBuiltintTypeAny(type, ctx) ==
    print(ctx, CASE type.name = "Bool" -> "boolean"
                 [] type.name = "Function" -> "Function"
                 [] type.name \in {"Number", "Int"} -> "number"
                 [] type.name = "String" -> "string"
                 [] OTHER -> "any")
visitBuiltintType(type, ctx) ==
    CASE type.name = "Bool" -> print(ctx, "boolean")
      [] type.name = "Dynamic" -> print(ctx, "any")
      [] type.name = "Function" -> print(ctx, "Function")
      [] type.name = "Number" -> print(ctx, "number")
      [] type.name = "Int" -> print(ctx, "number")
      [] type.name = "String" -> print(ctx, "string")
      [] OTHER -> throw(ctx, "Unsupported builtin type")

\* getBuiltinMethodName: the name, or the error thrown
getBuiltinMethodName(method) ==
    CASE method = "ConcatArray" -> [name |-> "concat", error |-> ""]
      [] method = "SubscribeObservable" -> [name |-> "subscribe", error |-> ""]
      [] method = "Bind" -> [name |-> "bind", error |-> ""]
      [] OTHER -> [name |-> "", error |-> "Unknown builtin method"]

\* the position of moduleUrl in the imports, 0 when it has no prefix yet
PrefixOf(imports, moduleUrl) ==
    IF \E k \in 1..Len(imports) : imports[k] = moduleUrl
    THEN CHOOSE k \in 1..Len(imports) : imports[k] = moduleUrl
    ELSE 0

RECURSIVE TypeVisit(_, _, _)
RECURSIVE visitTypes(_, _, _, _)

\* _visitIdentifier(value, typeParams, ctx)
_visitIdentifier(moduleUrl, value, typeParams, ctx) ==
    IF Thrown(ctx) THEN ctx
    ELSE IF value.name = absent
    THEN throw(ctx, "Internal error: unknown identifier")
    ELSE LET c1 == IF value.moduleUrl # absent /\ value.moduleUrl # moduleUrl
                   THEN IF PrefixOf(ctx.imports, value.moduleUrl) = 0
                        THEN print([ctx EXCEPT !.imports = Append(@, value.moduleUrl)],
                                   ImportPrefix(Len(ctx.imports)) \o ".")
                        ELSE print(ctx, ImportPrefix(PrefixOf(ctx.imports, value.moduleUrl) - 1)
                                        \o ".")
                   ELSE ctx
             c2 == print(c1, value.name)
         IN  IF Len(typeParams) > 0
             THEN print(visitTypes(moduleUrl, typeParams, 1, print(c2, "<")), ">")
             ELSE c2

\* visitType(t, ctx, defaultType)
visitType(moduleUrl, t, ctx, defaultType) ==
    IF t # null THEN TypeVisit(moduleUrl, t, ctx) ELSE print(ctx, defaultType)

\* t.visitType(this, ctx): the visit method of the class of t
TypeVisit(moduleUrl, t, ctx) ==
    CASE t.node = "BuiltinType" -> visitBuiltintType(t, ctx)
      [] t.node = "ExternalType" -> _visitIdentifier(moduleUrl, t.value, t.typeParams, ctx)
      [] t.node = "ArrayType" -> print(visitType(moduleUrl, t.of, ctx, "any"), "[]")
      [] t.node = "MapType" ->
            print(visitType(moduleUrl, t.valueType, print(ctx, "{[key: string]:"), "any"), "}")

\* visitAllObjects(type => type.visitType(this, ctx), typeParams, ctx, ',')
visitTypes(moduleUrl, types, i, ctx) ==
    IF i > Len(types) THEN ctx
    ELSE visitTypes(moduleUrl, types, i + 1,
                    TypeVisit(moduleUrl, types[i], IF i > 1 THEN print(ctx, ",") ELSE ctx))

\* ast.visitExpression(this, ctx)
RECURSIVE ExpressionVisit(_, _, _)
ExpressionVisit(moduleUrl, ast, ctx) ==
    CASE ast.node = "LiteralExpr" ->
            print(ctx, IF ast.value = absent THEN "(null as any)" ELSE ast.value)
      [] ast.node = "ExternalExpr" -> _visitIdentifier(moduleUrl, ast.value, ast.typeParams, ctx)
      [] ast.node = "CastExpr" ->
            print(ExpressionVisit(moduleUrl, ast.value,
                                  print(TypeVisit(moduleUrl, ast.type, print(ctx, "(<")), ">")),
                  ")")
      [] ast.node = "InvokeMethodExpr" ->
            LET c1 == ExpressionVisit(moduleUrl, ast.receiver, ctx)
                method == getBuiltinMethodName(ast.builtin)
            IN  IF method.error # "" THEN throw(c1, method.error)
                ELSE print(print(print(c1, "."), method.name), "()")

\* visitDeclareVarStmt(stmt, ctx)
visitDeclareVarStmt(moduleUrl, stmt, ctx) ==
    LET c1 == IF stmt.name \in ctx.exportedVars THEN print(ctx, "export ") ELSE ctx
        c2 == print(c1, IF stmt.final THEN "const" ELSE "var")
        c3 == print(print(print(c2, " "), stmt.name), ":")
        c4 == print(visitType(moduleUrl, stmt.type, c3, "any"), " = ")
    IN  println(ExpressionVisit(moduleUrl, stmt.value, c4), ";")

\* ast.visitStatement(this, ctx)
StatementVisit(moduleUrl, stmt, ctx) == visitDeclareVarStmt(moduleUrl, stmt, ctx)

\* the body of asts.forEach in debugOutputAstAsTypeScript
debugVisit(moduleUrl, ast, ctx) ==
    IF ast.ast = "Statement" THEN StatementVisit(moduleUrl, ast, ctx)
    ELSE IF ast.ast = "Expression" THEN ExpressionVisit(moduleUrl, ast, ctx)
    ELSE IF ast.ast = "Type" THEN TypeVisit(moduleUrl, ast, ctx)
    ELSE throw(ctx, "Don't know how to print debug info")

\* ctx.toSource()
toSource(ctx) == ctx.text

\* emitStatements: one import line per prefix, then the source
importLines(ctx) ==
    [ k \in 1..Len(ctx.imports) |->
        "import * as " \o ImportPrefix(k - 1) \o " from '" \o ctx.imports[k] \o "';" ]

\* nothing is being compiled
NoCompilation ==
    /\ views = <<>>
    /\ stack = <<>>
    /\ deps = <<>>
    /\ rets = <<>>
    /\ tmpl = <<>>
    /\ run = 1
    /\ pos = 1
    /\ out1 = <<>>
    /\ phase = "idle"
    /\ query = NoQuery
    /\ added = <<>>
    /\ lookup = NoLookup
    /\ config = DefaultConfig
    /\ targetStatements = <<>>
    /\ runtime = NotLoaded

\* the identifiers, types, expressions and statements the emitter is given
SomeIdentifiers ==
    { Identifier("Foo", absent), Identifier("Foo", "asset://other/lib"),
      Identifier(absent, absent) }
SomeTypes ==
    { BuiltinType(name) : name \in {"Bool", "Dynamic", "String", "Inferred"} }
        \cup { ExternalType(id, <<>>) : id \in SomeIdentifiers }
        \cup { ExternalType(Identifier("Foo", absent), <<BuiltinType(name)>>) :
                 name \in {"Int", "Inferred"} }
        \cup { ArrayType(null), ArrayType(BuiltinType("Inferred")),
               MapType(ExternalType(Identifier(absent, absent), <<>>)) }
SomeExpressions ==
    { LiteralExpr(absent) }
        \cup { ExternalExpr(id) : id \in SomeIdentifiers }
        \cup { CastExpr(LiteralExpr(absent), BuiltinType(name)) : name \in {"Number", "Inferred"} }
        \cup { InvokeMethodExpr(LiteralExpr("a"), method) :
                 method \in {"ConcatArray", "SubscribeObservable", "Bind", "Unknown"} }
SomeStatements ==
    { DeclareVarStmt("x", LiteralExpr(absent), null, TRUE),
      DeclareVarStmt("x", ExternalExpr(Identifier("Foo", "asset://other/lib")),
                     BuiltinType("Function"), FALSE),
      DeclareVarStmt("y", ExternalExpr(Identifier(absent, absent)), null, FALSE),
      DeclareVarStmt("y", InvokeMethodExpr(LiteralExpr("a"), "Unknown"), null, FALSE),
      DeclareVarStmt("y", LiteralExpr(absent), BuiltinType("Inferred"), FALSE) }
\* something that is no output AST node
SomeObject == [ast |-> "Object", node |-> "Object"]

\* a call of debugOutputAstAsTypeScript(asts) or of emitStatements(moduleUrl,
\* stmts, exportedVars); `source` is the text the call returned, empty as long
\* as it has returned none
InitEmit ==
    /\ NoCompilation
    /\ keyEvents = NoKeyEvents
    /\ \/ \E asts \in SeqsUpTo(SomeTypes \cup SomeExpressions \cup SomeStatements
                                \cup {SomeObject}, MaxAsts) :
             emitter = [ entry |-> "debugOutputAstAsTypeScript", moduleUrl |-> _debugModuleUrl,
                         asts |-> asts, at |-> 1, ctx |-> createRoot({}),
                         result |-> "running", source |-> <<>> ]
       \/ \E stmts \in SeqsUpTo(SomeStatements, MaxAsts), exported \in {{}, {"x"}} :
             emitter = [ entry |-> "emitStatements", moduleUrl |-> "asset://own/lib",
                         asts |-> stmts, at |-> 1, ctx |-> createRoot(exported),
                         result |-> "running", source |-> <<>> ]

\* one round of asts.forEach / visitAllStatements; an error ends the call
EmitVisit ==
    /\ emitter.result = "running"
    /\ emitter.at <= Len(emitter.asts)
    /\ LET ast == emitter.asts[emitter.at]
           ctx == IF emitter.entry = "debugOutputAstAsTypeScript"
                  THEN debugVisit(emitter.moduleUrl, ast, emitter.ctx)
                  ELSE StatementVisit(emitter.moduleUrl, ast, emitter.ctx)
       IN  emitter' = [emitter EXCEPT !.ctx = ctx, !.at = @ + 1,
                                      !.result = IF Thrown(ctx) THEN "thrown" ELSE @]
    /\ UNCHANGED <<views, stack, deps, rets, tmpl, run, pos, out1, phase, query, added, lookup,
                   config, targetStatements, runtime, keyEvents>>

\* return ctx.toSource(), after the import lines in emitStatements
EmitReturn ==
    /\ emitter.result = "running"
    /\ emitter.at > Len(emitter.asts)
    /\ emitter' = [emitter EXCEPT
                     !.result = "returned",
                     !.source = IF emitter.entry = "emitStatements"
                                THEN importLines(emitter.ctx) \o toSource(emitter.ctx)
                                ELSE toSource(emitter.ctx)]
    /\ UNCHANGED <<views, stack, deps, rets, tmpl, run, pos, out1, phase, query, added, lookup,
                   config, targetStatements, runtime, keyEvents>>

NextEmit == EmitVisit \/ EmitReturn

SpecEmit == InitEmit /\ [][NextEmit]_vars

(***************************************************************************)
(* KeyEventsPlugin.  An event name is the sequence of its parts: the       *)
(* strings between the dots, so that split('.') is the sequence itself and *)
(* an empty string is a name of one empty part.                            *)
(***************************************************************************)
MaxParts == 3
MaxKeyParts == 3

modifierKeys == <<"alt", "control", "meta", "shift">>

\* modifierKeyGetters[modifierName](event)
modifierKeyGetters(modifierName, event) ==
    CASE modifierName = "alt" -> event.altKey
      [] modifierName = "control" -> event.ctrlKey
      [] modifierName = "meta" -> event.metaKey
      [] modifierName = "shift" -> event.shiftKey

\* String.prototype.toLowerCase, on the strings the model uses
toLowerCase(str) ==
    CASE str = "KeyUp" -> "keyup"
      [] str = "KEYDOWN" -> "keydown"
      [] str = "Alt" -> "alt"
      [] str = "Shift" -> "shift"
      [] str = "A" -> "a"
      [] str = "Esc" -> "esc"
      [] str = "Escape" -> "escape"
      [] OTHER -> str

\* KeyEventsPlugin._normalizeKey(keyName)
_normalizeKey(keyName) == IF keyName = "esc" THEN "escape" ELSE keyName

\* ListWrapper.contains(list, el); ListWrapper.remove(list, el): the first
\* occurrence is taken out
ListWrapper_contains(list, el) == \E i \in 1..Len(list) : list[i] = el
ListWrapper_remove(list, el) ==
    IF ListWrapper_contains(list, el)
    THEN LET i == CHOOSE k \in 1..Len(list) :
                      list[k] = el /\ \A j \in 1..(k - 1) : list[j] # el
         IN  SubSeq(list, 1, i - 1) \o SubSeq(list, i + 1, Len(list))
    ELSE list

\* what parseEventName returns: null, or domEventName and fullKey
NoParsedEvent == [isNull |-> TRUE, domEventName |-> "", fullKey |-> ""]
ParsedEvent(domEventName, fullKey) ==
    [isNull |-> FALSE, domEventName |-> domEventName, fullKey |-> fullKey]

\* modifierKeys.forEach in parseEventName, from the i-th modifier on
RECURSIVE TakeModifiers(_, _, _)
TakeModifiers(parts, fullKey, i) ==
    IF i > Len(modifierKeys) THEN [parts |-> parts, fullKey |-> fullKey]
    ELSE IF ListWrapper_contains(parts, modifierKeys[i])
    THEN TakeModifiers(ListWrapper_remove(parts, modifierKeys[i]),
                       fullKey \o modifierKeys[i] \o ".", i + 1)
    ELSE TakeModifiers(parts, fullKey, i + 1)

\* KeyEventsPlugin.parseEventName(eventName)
parseEventNameKeepParts(eventName) ==
    LET lower == [i \in 1..Len(eventName) |-> toLowerCase(eventName[i])]
        domEventName == Head(lower)
        parts == Tail(lower)
    IN  IF Len(parts) = 0 \/ ~(domEventName = "keydown" \/ domEventName = "keyup")
        THEN NoParsedEvent
        ELSE LET key == _normalizeKey(parts[Len(parts)])
                 taken == TakeModifiers(SubSeq(parts, 1, Len(parts) - 1), "", 1)
             IN  IF key = "" THEN NoParsedEvent
                 ELSE ParsedEvent(domEventName, taken.fullKey \o key)
parseEventName(eventName) ==
    LET lower == [i \in 1..Len(eventName) |-> toLowerCase(eventName[i])]
        domEventName == Head(lower)
        parts == Tail(lower)
    IN  IF Len(parts) = 0 \/ ~(domEventName = "keydown" \/ domEventName = "keyup")
        THEN NoParsedEvent
        ELSE LET key == _normalizeKey(parts[Len(parts)])
                 taken == TakeModifiers(SubSeq(parts, 1, Len(parts) - 1), "", 1)
                 fullKey == taken.fullKey \o key
             IN  IF Len(taken.parts) # 0 \/ key = ""
                 THEN NoParsedEvent
                 ELSE ParsedEvent(domEventName, fullKey)

\* supports(eventName)
supports(eventName) == ~parseEventName(eventName).isNull

\* getDOM().getEventKey(event)
getEventKey(event) == event.key

\* modifierKeys.forEach in getEventFullKey, from the i-th modifier on
RECURSIVE PressedModifiersAll(_, _, _, _)
PressedModifiersAll(event, key, fullKey, i) ==
    IF i > Len(modifierKeys) THEN fullKey
    ELSE PressedModifiersAll(event, key,
                             IF modifierKeyGetters(modifierKeys[i], event)
                             THEN fullKey \o modifierKeys[i] \o "." ELSE fullKey,
                             i + 1)
RECURSIVE PressedModifiers(_, _, _, _)
PressedModifiers(event, key, fullKey, i) ==
    IF i > Len(modifierKeys) THEN fullKey
    ELSE PressedModifiers(event, key,
                          IF modifierKeys[i] # key /\ modifierKeyGetters(modifierKeys[i], event)
                          THEN fullKey \o modifierKeys[i] \o "." ELSE fullKey,
                          i + 1)

\* KeyEventsPlugin.getEventFullKey(event)
getEventFullKey(event) ==
    LET lower == toLowerCase(getEventKey(event))
        key == IF lower = " " THEN "space" ELSE IF lower = "." THEN "dot" ELSE lower
    IN  PressedModifiers(event, key, "", 1) \o key

\* a keyboard event
KeyboardEvent(type, key, altKey, ctrlKey, metaKey, shiftKey) ==
    [type |-> type, key |-> key, altKey |-> altKey, ctrlKey |-> ctrlKey,
     metaKey |-> metaKey, shiftKey |-> shiftKey]
NoEvent == KeyboardEvent("", "", FALSE, FALSE, FALSE, FALSE)

\* the plugin is asked about one event name
NewKeyEvents(eventName) ==
    [ eventName |-> eventName, supported |-> "unknown", listener |-> NoParsedEvent,
      event |-> NoEvent, ran |-> FALSE ]

\* the event manager asks plugin.supports(eventName)
Supports ==
    /\ keyEvents.supported = "unknown"
    /\ keyEvents' = [keyEvents EXCEPT
                       !.supported = IF supports(keyEvents.eventName) THEN "yes" ELSE "no"]
    /\ UNCHANGED <<views, stack, deps, rets, tmpl, run, pos, out1, phase, query, added, lookup,
                   config, targetStatements, runtime, emitter>>

\* addEventListener(element, eventName, handler), called on the plugin that
\* supports the name: the callback is registered for parsedEvent.domEventName
AddEventListener ==
    /\ keyEvents.supported = "yes"
    /\ keyEvents.listener.isNull
    /\ keyEvents' = [keyEvents EXCEPT !.listener = parseEventName(keyEvents.eventName)]
    /\ UNCHANGED <<views, stack, deps, rets, tmpl, run, pos, out1, phase, query, added, lookup,
                   config, targetStatements, runtime, emitter>>

\* the element receives a keyboard event: the DOM calls the callbacks
\* registered for its type, eventCallback compares the full keys
Dispatch(type, key, altKey, ctrlKey, shiftKey) ==
    /\ ~keyEvents.listener.isNull
    /\ keyEvents.event = NoEvent
    /\ LET event == KeyboardEvent(type, key, altKey, ctrlKey, FALSE, shiftKey)
       IN  keyEvents' = [keyEvents EXCEPT
                           !.event = event,
                           !.ran = /\ type = keyEvents.listener.domEventName
                                   /\ getEventFullKey(event) = keyEvents.listener.fullKey]
    /\ UNCHANGED <<views, stack, deps, rets, tmpl, run, pos, out1, phase, query, added, lookup,
                   config, targetStatements, runtime, emitter>>

\* SpecParse: every event name of up to MaxParts parts after the first
InitParse ==
    /\ NoCompilation
    /\ emitter = NoEmitter
    /\ \E first \in {"keydown", "KeyUp", "click", ""},
          parts \in SeqsUpTo({"alt", "control", "Shift", "a", "esc", "", "enter"}, MaxParts) :
          keyEvents = NewKeyEvents(<<first>> \o parts)

NextParse == Supports \/ AddEventListener

SpecParse == InitParse /\ [][NextParse]_vars

\* SpecKeys: key names with modifiers in any order, and the keyboard events
\* sent to the listener
InitKeys ==
    /\ NoCompilation
    /\ emitter = NoEmitter
    /\ \E first \in {"keydown", "KeyUp"},
          parts \in SeqsUpTo({"alt", "Shift", "control", "A", "esc", "space"}, MaxKeyParts) :
          keyEvents = NewKeyEvents(<<first>> \o parts)

NextKeys ==
    \/ Supports
    \/ AddEventListener
    \/ \E type \in {"keydown", "keyup"}, key \in {"a", "Escape", "Shift", " "},
          altKey \in BOOLEAN, ctrlKey \in BOOLEAN, shiftKey \in BOOLEAN :
          Dispatch(type, key, altKey, ctrlKey, shiftKey)

SpecKeys == InitKeys /\ [][NextKeys]_vars

(***************************************************************************)
(* Properties of the builder                                               *)
(***************************************************************************)
\* view w is declared, directly or transitively, under view v
RECURSIVE DeclaredUnder(_, _, _)
DeclaredUnder(vs, w, v) ==
    LET d == vs[w].declarationElement
    IN  /\ ~isNull(d)
        /\ \/ d.view = v
           \/ DeclaredUnder(vs, d.view, v)

NodeKinds == {"Text", "BoundText", "Element", "EmbeddedTemplate"}

\* C1: buildView(view, nodes) returns the number of embedded views created
\* transitively under that view; for the root view that is the number of
\* EmbeddedTemplate nodes of the template, at any depth.
C1_ReturnsNestedViewCount ==
    /\ \A v \in DOMAIN rets :
          rets[v] = Cardinality({ w \in 1..Len(views) : DeclaredUnder(views, w, v) })
    /\ phase = "done" =>
          rets[1] = Cardinality({ i \in 1..Len(tmpl) : tmpl[i].kind = "EmbeddedTemplate" })

\* two structural directives nested two levels deep: buildView on the root returns 2
C1_Witness ==
    /\ phase = "done"
    /\ Len(views) = 3
    /\ views[2].declarationElement.view = 1
    /\ views[3].declarationElement.view = 2
    /\ rets[1] = 2
    /\ rets[2] = 1

\* C2: the root view has nesting index 0 and the embedded views get 1..n in the
\* order their anchors are visited (depth-first pre-order); no two views of the
\* component share a nesting index.
C2_DistinctViewIndices ==
    /\ \A k \in 1..Len(views) : views[k].viewIndex = k - 1
    /\ \A k \in 2..Len(views) : views[k].declarationElement.view < k
    /\ \A j, k \in 1..Len(views) : j # k => views[j].viewIndex # views[k].viewIndex

\* an embedded template holding an embedded template, followed by a sibling
C2_Witness ==
    /\ Len(views) = 4
    /\ views[3].declarationElement.view = 2
    /\ views[4].declarationElement.view = 1
    /\ views[4].viewIndex = 3

\* C3: the compile node at position i of a view's node list has index i (counted
\* from 0) and belongs to that view; text, element and template-anchor nodes take
\* one index each, ng-content and the no-op kinds take none, and a node of an
\* embedded view takes no index of the declaring view.
C3_NodeIndexIsPosition ==
    /\ \A v \in 1..Len(views) : \A i \in 1..Len(views[v].nodes) :
          /\ views[v].nodes[i].nodeIndex = i - 1
          /\ views[v].nodes[i].view = v
          /\ views[v].fields[i].name[2] = i - 1
    /\ \A v \in 1..Len(views) : Len(views[v].fields) = Len(views[v].nodes)
    /\ run = 1 =>
          SumNodes(views, Len(views)) =
             Cardinality({ i \in 1..Len(tmpl) : tmpl[i].kind \in NodeKinds })

\* a node of the declaring view created after the nodes of an embedded view
C3_Witness ==
    /\ Len(views) = 2
    /\ Len(views[2].nodes) = 1
    /\ Len(views[1].nodes) = 2
    /\ views[1].nodes[2].nodeIndex = 1
    /\ views[2].nodes[1].nodeIndex = 0

RECURSIVE AncestorsOrSelf(_, _)
AncestorsOrSelf(vs, ref) ==
    {ref} \cup (IF ~isNull(ParentOf(vs, ref)) /\ ParentOf(vs, ref).view = ref.view
                THEN AncestorsOrSelf(vs, ParentOf(vs, ref)) ELSE {})

IsContainerOf(vs, ref, view) ==
    /\ ~isNull(ref)
    /\ ref.view = view
    /\ NodeIn(vs, ref).sourceAst.kind = "Element"
    /\ NodeIn(vs, ref).sourceAst.name = "ng-container"

\* the outermost ng-container of the unbroken chain of ng-containers above a
\* node, or the node itself when its parent is no ng-container of the view
OutermostOf(vs, ref) ==
    CHOOSE o \in AncestorsOrSelf(vs, ref) :
        /\ \A m \in AncestorsOrSelf(vs, ref) :
              (m # ref /\ o \in AncestorsOrSelf(vs, m)) => IsContainerOf(vs, m, ref.view)
        /\ ~IsContainerOf(vs, ParentOf(vs, o), ref.view)

\* what a node registers: its app element when it hosts a view container
RegisteredExpr(n) == IF n.isElement /\ n.hasViewContainer THEN n.appElement ELSE n.renderNode

Occurrences(seq, x) == Cardinality({ i \in 1..Len(seq) : seq[i] = x })

\* number of times x is held by the projection buckets of the elements of view v
RECURSIVE BucketOccurrences(_, _, _, _)
BucketOccurrences(vs, v, i, x) ==
    IF i = 0 THEN 0
    ELSE LET n == vs[v].nodes[i]
             buckets == IF n.isElement THEN n.contentNodesByNgContentIndex ELSE <<>>
             RECURSIVE InBuckets(_)
             InBuckets(b) == IF b = 0 THEN 0 ELSE Occurrences(buckets[b], x) + InBuckets(b - 1)
         IN  InBuckets(Len(buckets)) + BucketOccurrences(vs, v, i - 1, x)

\* the text and element nodes: registered when they are created
Leaves(vs) ==
    { ref \in UNION { { ElRef(v, i - 1) : i \in 1..Len(vs[v].nodes) } : v \in 1..Len(vs) } :
        NodeIn(vs, ref).sourceAst.kind \in {"Text", "Element"} }

\* C4: a node is registered by the parent and the content-projection index of
\* the outermost ng-container of the chain above it (its own when there is no
\* chain): as a root node of a host or embedded view when that parent lies
\* outside the view, in that parent's bucket at that index when the parent
\* hosts a component, and nowhere else.
C4_RegisteredByOutermostContainer ==
    \A ref \in Leaves(views) :
        LET v == ref.view
            x == RegisteredExpr(NodeIn(views, ref))
            o == OutermostOf(views, ref)
            parent == ParentOf(views, o)
            k == NodeIn(views, o).sourceAst.ngContentIndex
            asRoot == Occurrences(views[v].rootNodesOrAppElements, x)
            inBuckets == BucketOccurrences(views, v, Len(views[v].nodes), x)
        IN  IF parent.view # v
            THEN /\ asRoot = (IF views[v].viewType = "COMPONENT" THEN 0 ELSE 1)
                 /\ inBuckets = 0
            ELSE IF NodeIn(views, parent).component.present /\ k # NoIndex
            THEN /\ asRoot = 0
                 /\ inBuckets = 1
                 /\ Occurrences(NodeIn(views, parent).contentNodesByNgContentIndex[k + 1], x) = 1
            ELSE asRoot = 0 /\ inBuckets = 0

\* a text node under two nested ng-containers at the top of a host view is
\* registered as a root node of the view
C4_Witness ==
    /\ views[1].viewType = "HOST"
    /\ Len(views[1].nodes) = 3
    /\ views[1].nodes[1].sourceAst.name = "ng-container"
    /\ views[1].nodes[2].sourceAst.name = "ng-container"
    /\ views[1].nodes[2].parent = ElRef(1, 0)
    /\ views[1].nodes[3].sourceAst.kind = "Text"
    /\ views[1].nodes[3].parent = ElRef(1, 1)
    /\ Occurrences(views[1].rootNodesOrAppElements, views[1].nodes[3].renderNode) = 1
(***************************************************************************)
(* Attributes of an element                                                *)
(***************************************************************************)
\* the setElementAttribute statements of a view's create method, in order
RECURSIVE SelectSetAttribute(_)
SelectSetAttribute(stmts) ==
    IF Len(stmts) = 0 THEN <<>>
    ELSE (IF Head(stmts).op = "setElementAttribute" THEN <<Head(stmts)>> ELSE <<>>)
         \o SelectSetAttribute(Tail(stmts))

\* the values an element's template declares for an attribute name: the HTML
\* value if any, then the directives' host values in declaration order
RECURSIVE HostValuesOf(_, _)
HostValuesOf(hostAttributes, name) ==
    IF Len(hostAttributes) = 0 THEN <<>>
    ELSE (IF Head(hostAttributes)[1] = name THEN <<Head(hostAttributes)[2]>> ELSE <<>>)
         \o HostValuesOf(Tail(hostAttributes), name)

RECURSIVE DirectiveValuesOf(_, _)
DirectiveValuesOf(directiveAsts, name) ==
    IF Len(directiveAsts) = 0 THEN <<>>
    ELSE HostValuesOf(Head(directiveAsts)[2], name) \o DirectiveValuesOf(Tail(directiveAsts), name)

HtmlValueOf(attrs, name) ==
    IF \E i \in 1..Len(attrs) : attrs[i][1] = name
    THEN <<attrs[CHOOSE i \in 1..Len(attrs) :
                    attrs[i][1] = name /\ \A j \in (i + 1)..Len(attrs) : attrs[j][1] # name][2]>>
    ELSE <<>>

DeclaredValues(element, name) ==
    HtmlValueOf(element.attrs, name) \o DirectiveValuesOf(element.directives, name)

RECURSIVE JoinBySpace(_)
JoinBySpace(values) ==
    IF Len(values) = 1 THEN values[1]
    ELSE values[1] \o <<" ">> \o JoinBySpace(Tail(values))

\* C5: the emitted class attribute of an element is its static HTML class value
\* (if any) followed by the class values of its directives in declaration
\* order, joined by single spaces; no class attribute is emitted when nothing
\* declares one.  The same holds for style.
C5_ClassAndStyleJoined ==
    (Len(tmpl) > 0 /\ tmpl[1].kind = "Element") =>
        \A name \in {CLASS_ATTR, STYLE_ATTR} :
            LET declared == DeclaredValues(tmpl[1], name)
                emitted == SelectSetAttribute(views[1].createMethod)
                at == { i \in 1..Len(emitted) : emitted[i].attrName = name }
            IN  IF Len(declared) = 0
                THEN at = {}
                ELSE /\ Cardinality(at) = 1
                     /\ \A i \in at : emitted[i].attrValue = JoinBySpace(declared)

\* static class 'a', then a directive with class 'b' and one with class 'c':
\* the emitted value is 'a b c'
C5_Witness ==
    /\ Len(tmpl) > 0
    /\ tmpl[1].kind = "Element"
    /\ DeclaredValues(tmpl[1], CLASS_ATTR) = << <<"a">>, <<"b">>, <<"c">> >>
    /\ \E i \in 1..Len(views[1].createMethod) :
          /\ views[1].createMethod[i].op = "setElementAttribute"
          /\ views[1].createMethod[i].attrName = CLASS_ATTR
          /\ views[1].createMethod[i].attrValue = <<"a", " ", "b", " ", "c">>

\* C6: the set-attribute statements of an element appear in strictly ascending
\* lexicographic order of attribute name (code unit by code unit, a proper
\* prefix before the longer name).
C6_AscendingByName ==
    LET emitted == SelectSetAttribute(views[1].createMethod)
    IN  \A i \in 1..Len(emitted) : \A j \in (i + 1)..Len(emitted) :
            StringLess(emitted[i].attrName, emitted[j].attrName)

(***************************************************************************)
(* Properties of CompileQuery                                              *)
(***************************************************************************)
\* the statements of a method that refresh a query list
RECURSIVE SelectReset(_)
SelectReset(stmts) ==
    IF Len(stmts) = 0 THEN <<>>
    ELSE (IF Head(stmts).op \in {"reset", "notifyOnChanges"} THEN <<Head(stmts)>> ELSE <<>>)
         \o SelectReset(Tail(stmts))

SomeValueFromNestedView == \E i \in 1..Len(added) : added[i][2] # query.view

\* C8: afterChildren puts the refresh statements of the query in one place:
\* unconditionally in the static (create) method exactly when the query is
\* first:true and no value came from a nested view; otherwise as one conditional
\* on queryList.dirty in the dynamic method, and nothing in the static method.
C8_RefreshInOnePlace ==
    LET static == SelectReset(views[query.view].createMethod)
        dynamic == views[query.view].updateViewQueriesMethod
    IN  /\ (query.view # 0 /\ phase # "finished") => static = <<>> /\ dynamic = <<>>
        /\ phase = "finished" =>
              IF query.first /\ ~SomeValueFromNestedView
              THEN /\ dynamic = <<>>
                   /\ Len(static) = 1
                   /\ static[1].op = "reset"
              ELSE /\ static = <<>>
                   /\ Len(dynamic) = 1
                   /\ dynamic[1].op = "if"
                   /\ dynamic[1].condition =
                         [e |-> "prop", of |-> query.queryList, name |-> "dirty"]
                   /\ Len(SelectReset(dynamic[1].trueCase)) >= 1
                   /\ dynamic[1].trueCase[1].op = "reset"

\* a first:true query with a value from an embedded view: refreshed under the
\* dirty check
C8_Witness ==
    /\ phase = "finished"
    /\ query.first
    /\ SomeValueFromNestedView
    /\ \E i \in 1..Len(added) : added[i][2] = query.view
    /\ Len(views[query.view].updateViewQueriesMethod) = 1

\* the class names of the views from below the owning view down to `view`
RECURSIVE ClassesBelow(_, _, _)
ClassesBelow(vs, view, owner) ==
    IF view = owner \/ view = 0 THEN <<>>
    ELSE Append(ClassesBelow(vs, vs[view].declarationElement.view, owner), vs[view].className)

\* for every occurrence of a value in a list of flattened expressions: the view
\* classes of the mapNestedViews calls around it, outermost first
RECURSIVE WrappersOf(_, _, _)
WrappersOf(exprs, value, around) ==
    UNION { IF exprs[i].e = "mapNestedViews"
            THEN WrappersOf(exprs[i].body, replaceVarInExpression(value),
                            Append(around, exprs[i].viewClass))
            ELSE IF exprs[i] = value THEN {around} ELSE {} : i \in 1..Len(exprs) }

\* the array handed to queryList.reset
ResetValues ==
    LET static == SelectReset(views[query.view].createMethod)
    IN  IF static # <<>> THEN static[1].values
        ELSE views[query.view].updateViewQueriesMethod[1].trueCase[1].values

\* C9: each addValue(value, view) from a view nested below the owning view adds
\* one setDirty statement on the query list to that view's
\* dirtyParentQueriesMethod, and in the flattened result the value occurs only
\* inside mapNestedViews calls, one per view between the owning view and the
\* originating view; a value of the owning view adds no setDirty statement and
\* occurs unwrapped.
C9_NestedValuesDirtyAndWrapped ==
    /\ \A v \in 1..Len(views) :
          /\ Len(views[v].dirtyParentQueriesMethod) =
                Cardinality({ i \in 1..Len(added) : added[i][2] = v /\ v # query.view })
          /\ \A k \in 1..Len(views[v].dirtyParentQueriesMethod) :
                /\ views[v].dirtyParentQueriesMethod[k].op = "setDirty"
                /\ views[v].dirtyParentQueriesMethod[k].target.property = query.queryList
    /\ phase = "finished" =>
          \A i \in 1..Len(added) :
             WrappersOf(ResetValues, added[i][1], <<>>)
                = { ClassesBelow(views, added[i][2], query.view) }

\* values from the owning view, from an embedded view and from an embedded
\* view nested in another
C9_Witness ==
    /\ phase = "finished"
    /\ \E i, j, k \in 1..Len(added) :
          /\ added[i][2] = query.view
          /\ Len(ClassesBelow(views, added[j][2], query.view)) = 1
          /\ Len(ClassesBelow(views, added[k][2], query.view)) = 2

(***************************************************************************)
(* Properties of getLocal                                                  *)
(***************************************************************************)
\* view w is v or a view enclosing v
EnclosesOrSelf(w, v) == w = v \/ DeclaredUnder(views, v, w)

\* C10: getLocal with the name of the event variable returns
\* EventHandlerVars.event in every view, also when the view or a view enclosing
\* it declares a template variable of that name.
C10_EventNameIsReserved ==
    (lookup.view # 0 /\ lookup.name = EventHandlerVars_event.name)
        => lookup.result = EventHandlerVars_event

\* the lookup is made in an embedded view nested in a view that declares a
\* variable named $event
C10_Witness ==
    /\ lookup.view # 0
    /\ lookup.name = EventHandlerVars_event.name
    /\ \E w \in 1..Len(views) :
          /\ w # lookup.view
          /\ EnclosesOrSelf(w, lookup.view)
          /\ HasLocal(views[w].locals, EventHandlerVars_event.name)

\* the views from v outward along declarationElement.view, v first
RECURSIVE ChainFrom(_)
ChainFrom(v) ==
    IF v = 0 THEN <<>> ELSE <<v>> \o ChainFrom(views[v].declarationElement.view)

\* view w declares the template variable `name`
Declares(w, name) ==
    \E i \in 1..Len(views[w].templateVariableBindings) :
        views[w].templateVariableBindings[i][2] = name

\* what the constructor bound the name to: context.<value> of the last
\* declaration of the name
BindingIn(w, name) ==
    LET bindings == views[w].templateVariableBindings
        last == CHOOSE i \in 1..Len(bindings) :
                   /\ bindings[i][2] = name
                   /\ \A j \in (i + 1)..Len(bindings) : bindings[j][2] # name
    IN  [e |-> "context.prop", name |-> bindings[last][1]]

\* C11: getLocal(name), for a name other than the event variable, returns the
\* binding of the nearest view on the declaration-element chain that declares
\* the name, rewritten by the number of views walked; it returns null when no
\* view up to the top-level view declares it; the chain is finite because every
\* declaration element lies in a view created earlier.
C11_NearestDeclaringView ==
    /\ \A w \in 1..Len(views) : views[w].declarationElement.view < w
    /\ (lookup.view # 0 /\ lookup.name # EventHandlerVars_event.name) =>
          LET chain == ChainFrom(lookup.view)
              found == { k \in 1..Len(chain) : Declares(chain[k], lookup.name) }
          IN  IF found = {}
              THEN lookup.result = null
              ELSE LET k == CHOOSE n \in found : \A m \in found : n <= m
                       binding == BindingIn(chain[k], lookup.name)
                   IN  lookup.result =
                         IF k = 1 THEN binding
                         ELSE [e |-> "inView", property |-> binding, parents |-> k - 1]

\* x is looked up in a view that does not declare it; the enclosing view and
\* the one around that both declare x, with different bindings
C11_Witness ==
    /\ lookup.view # 0
    /\ lookup.name = "x"
    /\ LET chain == ChainFrom(lookup.view)
       IN  /\ Len(chain) = 4
           /\ ~Declares(chain[1], "x")
           /\ Declares(chain[2], "x")
           /\ Declares(chain[3], "x")
           /\ BindingIn(chain[2], "x") # BindingIn(chain[3], "x")
           /\ lookup.result # null

(***************************************************************************)
(* Properties of the view kind                                             *)
(***************************************************************************)
\* C12: a view is Embedded when its viewIndex is greater than 0, also under a
\* host component; Host when the index is 0 and the component is a host; else
\* Component.  Every view created for an EmbeddedTemplate node is Embedded.
C12_ViewKind ==
    \A w \in 1..Len(views) :
        /\ views[w].viewIndex > 0 => views[w].viewType = "EMBEDDED"
        /\ (views[w].viewIndex = 0 /\ views[w].isHost) => views[w].viewType = "HOST"
        /\ (views[w].viewIndex = 0 /\ ~views[w].isHost) => views[w].viewType = "COMPONENT"
        /\ ~isNull(views[w].declarationElement) => views[w].viewType = "EMBEDDED"

\* an embedded view declared in the view of a host component
C12_Witness ==
    /\ Len(views) >= 3
    /\ views[1].viewType = "HOST"
    /\ views[3].isHost
    /\ views[3].declarationElement.view = 2
    /\ views[3].viewType = "EMBEDDED"

(***************************************************************************)
(* Properties of the generated classes and factories                       *)
(***************************************************************************)
\* the generated statements of one kind, in order
RECURSIVE SelectOp(_, _)
SelectOp(stmts, op) ==
    IF Len(stmts) = 0 THEN <<>>
    ELSE (IF Head(stmts).op = op THEN <<Head(stmts)>> ELSE <<>>) \o SelectOp(Tail(stmts), op)

Classes == SelectOp(targetStatements, "class")
Factories == SelectOp(targetStatements, "factory")

\* the view a generated class was made for
ViewOfClass(c) == CHOOSE w \in 1..Len(views) : views[w].className = c.name

\* C13: the change detection mode handed to the superclass constructor is
\* CheckOnce only for a Component view of a component with a non-default
\* strategy; it is CheckAlways for a Component view with the default strategy
\* and for every Host and Embedded view.
C13_ChangeDetectionMode ==
    phase = "finished" =>
        /\ Len(Classes) = Len(views)
        /\ \A i \in 1..Len(Classes) :
              LET kind == views[ViewOfClass(Classes[i])].viewType
                  mode == Classes[i].constructorMethod.args[7]
              IN  /\ (kind = "COMPONENT" /\ config.changeDetection # "Default")
                        => mode = "CheckOnce"
                  /\ (kind = "COMPONENT" /\ config.changeDetection = "Default")
                        => mode = "CheckAlways"
                  /\ kind \in {"HOST", "EMBEDDED"} => mode = "CheckAlways"

\* an OnPush component with an embedded view: CheckOnce for the component
\* view, CheckAlways for the embedded view
C13_Witness ==
    /\ phase = "finished"
    /\ config.changeDetection = "OnPush"
    /\ Len(Classes) >= 2
    /\ views[1].viewType = "COMPONENT"
    /\ Classes[1].constructorMethod.args[7] = "CheckOnce"
    /\ Classes[2].constructorMethod.args[7] = "CheckAlways"

MethodNames(c) == { c.methods[k].name : k \in 1..Len(c.methods) }

\* the buffer a lifecycle method of the class is generated from
BufferOf(view, name) ==
    CASE name = "createInternal" -> view.createMethod
      [] name = "injectorGetInternal" -> view.injectorGetMethod
      [] name = "dirtyParentQueriesInternal" -> view.dirtyParentQueriesMethod
      [] name = "destroyInternal" -> view.destroyMethod
      [] name = "detachInternal" -> view.detachMethod
      [] name = "detectChangesInternal" ->
            view.animationBindingsMethod \o view.detectChangesInInputsMethod
            \o view.updateContentQueriesMethod \o view.afterContentLifecycleCallbacksMethod
            \o view.detectChangesRenderPropertiesMethod \o view.updateViewQueriesMethod
            \o view.afterViewLifecycleCallbacksMethod
      [] OTHER -> (CHOOSE h \in { view.eventHandlerMethods[k] :
                                   k \in 1..Len(view.eventHandlerMethods) } :
                      h.name = name).body

LifecycleNames ==
    { "createInternal", "injectorGetInternal", "detectChangesInternal",
      "dirtyParentQueriesInternal", "destroyInternal", "detachInternal" }

\* C14, as stated: every method of a generated class, createInternal included,
\* is there only if its buffer is non-empty, and has a non-empty body.
C14_OnlyIfBufferNonEmpty ==
    phase = "finished" =>
        \A i \in 1..Len(Classes) : \A k \in 1..Len(Classes[i].methods) :
            /\ Len(Classes[i].methods[k].body) > 0
            /\ Len(BufferOf(views[ViewOfClass(Classes[i])], Classes[i].methods[k].name)) > 0

\* C14, amended: no method of a generated class has an empty body;
\* createInternal is always there; every other lifecycle method and every event
\* handler method is there exactly when its buffer is non-empty.
C14_NoEmptyMethod ==
    phase = "finished" =>
        \A i \in 1..Len(Classes) :
            LET view == views[ViewOfClass(Classes[i])]
                names == MethodNames(Classes[i])
            IN  /\ \A k \in 1..Len(Classes[i].methods) : Len(Classes[i].methods[k].body) > 0
                /\ "createInternal" \in names
                /\ \A name \in LifecycleNames \ {"createInternal"} :
                      name \in names <=> Len(BufferOf(view, name)) > 0
                /\ \A k \in 1..Len(view.eventHandlerMethods) :
                      view.eventHandlerMethods[k].name \in names
                          <=> Len(view.eventHandlerMethods[k].body) > 0
                /\ \A name \in names \ LifecycleNames :
                      \E k \in 1..Len(view.eventHandlerMethods) :
                          view.eventHandlerMethods[k].name = name

\* an embedded view without nodes, with a destroy statement and two event
\* handlers, one of them empty: its class has createInternal, destroyInternal
\* and one handler
C14_Witness ==
    /\ phase = "finished"
    /\ \E i \in 1..Len(Classes) :
          LET view == views[ViewOfClass(Classes[i])]
          IN  /\ view.viewType = "EMBEDDED"
              /\ Len(view.createMethod) = 0
              /\ Len(view.eventHandlerMethods) = 2
              /\ Len(view.destroyMethod) > 0
              /\ Len(view.injectorGetMethod) = 0
              /\ Len(Classes[i].methods) = 3

\* positions in targetStatements of the statements that declare the shared
\* render component type variable
RenderTypeDeclarations ==
    { i \in 1..Len(targetStatements) :
        /\ targetStatements[i].op = "declare"
        /\ targetStatements[i].name = renderCompTypeVar.name }

\* a statement, at any depth, assigns the shared variable
RECURSIVE AssignsRenderType(_)
AssignsRenderType(stmts) ==
    \E k \in 1..Len(stmts) :
        \/ stmts[k].op = "set" /\ stmts[k].target = renderCompTypeVar
        \/ stmts[k].op = "if" /\ AssignsRenderType(stmts[k].trueCase)

\* C15: the shared render component type variable is declared once, as null,
\* next to the class of the view with index 0; only the factory of that view
\* assigns it, under the test that it is still null; so after any sequence of
\* factory calls it has been computed once if the top-level factory was called
\* and never otherwise.
C15_RenderTypeComputedOnce ==
    phase = "finished" =>
        /\ Cardinality(RenderTypeDeclarations) = 1
        /\ \A i \in RenderTypeDeclarations :
              /\ targetStatements[i].value = NULL_EXPR
              /\ targetStatements[i + 1].op = "class"
              /\ views[ViewOfClass(targetStatements[i + 1])].viewIndex = 0
        /\ \A i \in 1..Len(Factories) :
              IF Factories[i].name = Name("viewFactory_", 0)
              THEN /\ Factories[i].body[1].op = "if"
                   /\ Factories[i].body[1].condition =
                         [e |-> "identical", lhs |-> renderCompTypeVar, rhs |-> NULL_EXPR]
                   /\ AssignsRenderType(Factories[i].body[1].trueCase)
                   /\ ~AssignsRenderType(Tail(Factories[i].body))
              ELSE ~AssignsRenderType(Factories[i].body)
        /\ runtime.computed = (IF runtime.topLevelCalls > 0 THEN 1 ELSE 0)
        /\ runtime.topLevelCalls = 0 <=> runtime.renderType = NULL_EXPR

\* the top-level factory was called twice and the factory of an embedded view
\* once
C15_Witness ==
    /\ phase = "finished"
    /\ Len(Factories) >= 2
    /\ runtime.topLevelCalls = 2
    /\ runtime.calls = 3
    /\ runtime.computed = 1

\* the embedded views declared in view v, ordered by the node that declares
\* them, each followed by the views declared below it
RECURSIVE PreOrder(_)
RECURSIVE PreOrderFrom(_, _)
PreOrderFrom(v, idx) ==
    IF idx >= Len(views[v].nodes) THEN <<>>
    ELSE LET declared == { w \in 1..Len(views) :
                              views[w].declarationElement = ElRef(v, idx) }
         IN  (IF declared = {} THEN <<>> ELSE PreOrder(CHOOSE w \in declared : TRUE))
             \o PreOrderFrom(v, idx + 1)
PreOrder(v) == <<v>> \o PreOrderFrom(v, 0)

\* C16: finishView emits, for every view once, the class and then the factory
\* of the view, the class already holding what afterNodes added; a view comes
\* before the embedded views it declares, and sibling embedded views come in
\* node order with all of one's descendants before the next.
C16_FinishOrder ==
    phase = "finished" =>
        /\ Len(Classes) = Len(views)
        /\ Len(Factories) = Len(views)
        /\ [i \in 1..Len(Classes) |-> ViewOfClass(Classes[i])] = PreOrder(1)
        /\ \A i \in 1..Len(targetStatements) :
              targetStatements[i].op = "class" =>
                  /\ targetStatements[i + 1].op = "factory"
                  /\ targetStatements[i + 1].body[Len(targetStatements[i + 1].body)].value.class
                        = targetStatements[i].name
        /\ query.view # 0 =>
              \E k \in 1..Len(Classes[1].methods) :
                  LET body == Classes[1].methods[k].body
                  IN  \E n \in 1..Len(body) :
                         \/ body[n].op = "reset"
                         \/ /\ body[n].op = "if"
                            /\ \E m \in 1..Len(body[n].trueCase) :
                                   /\ body[n].trueCase[m].op = "if"
                                   /\ body[n].trueCase[m].trueCase[1].op = "reset"

\* a view with two embedded views, the first of which declares a third
C16_Witness ==
    /\ phase = "finished"
    /\ Len(views) = 4
    /\ query.view = 1
    /\ views[2].declarationElement.view = 1
    /\ views[3].declarationElement.view = 2
    /\ views[4].declarationElement.view = 1

(***************************************************************************)
(* Further properties of the attribute merge                               *)
(***************************************************************************)
\* C17: for an attribute name other than class and style, the emitted value is
\* the value of the last directive, in declaration order, that declares it,
\* whatever the HTML declares; a name only the HTML declares keeps its HTML
\* value.
C17_LastDirectiveWins ==
    (Len(tmpl) > 0 /\ tmpl[1].kind = "Element") =>
        \A name \in AttrNames \ {CLASS_ATTR, STYLE_ATTR} :
            LET html == HtmlValueOf(tmpl[1].attrs, name)
                directive == DirectiveValuesOf(tmpl[1].directives, name)
                emitted == SelectSetAttribute(views[1].createMethod)
                at == { i \in 1..Len(emitted) : emitted[i].attrName = name }
            IN  IF Len(html) = 0 /\ Len(directive) = 0
                THEN at = {}
                ELSE /\ Cardinality(at) = 1
                     /\ \A i \in at :
                           emitted[i].attrValue =
                               IF Len(directive) > 0 THEN directive[Len(directive)]
                               ELSE html[1]

\* a="a" in the HTML, a directive with a="b" and then one with a="c": the
\* emitted value is c
C17_Witness ==
    /\ Len(tmpl) > 0
    /\ tmpl[1].kind = "Element"
    /\ HtmlValueOf(tmpl[1].attrs, <<"a">>) = << <<"a">> >>
    /\ DirectiveValuesOf(tmpl[1].directives, <<"a">>) = << <<"b">>, <<"c">> >>
    /\ \E i \in 1..Len(views[1].createMethod) :
          /\ views[1].createMethod[i].op = "setElementAttribute"
          /\ views[1].createMethod[i].attrName = <<"a">>
          /\ views[1].createMethod[i].attrValue = <<"c">>

(***************************************************************************)
(* What is registered, and the parent render node                          *)
(***************************************************************************)
\* number of times x is registered in view v, as a root node or in a bucket
Registered(v, x) ==
    Occurrences(views[v].rootNodesOrAppElements, x)
        + BucketOccurrences(views, v, Len(views[v].nodes), x)

\* the registration of a node takes place: the parent of its outermost
\* container lies outside a host or embedded view, or hosts a component and the
\* container has a content-projection index
RegistrationApplies(ref) ==
    LET o == OutermostOf(views, ref)
        parent == ParentOf(views, o)
    IN  IF parent.view # ref.view
        THEN views[ref.view].viewType # "COMPONENT"
        ELSE /\ NodeIn(views, parent).component.present
             /\ NodeIn(views, o).sourceAst.ngContentIndex # NoIndex

\* C18, as stated: what is pushed for a node below ng-containers is the
\* outermost ng-container (its app element if it hosts a view container), not
\* the node.
C18_RegistersOutermostContainer ==
    \A ref \in Leaves(views) :
        LET o == OutermostOf(views, ref)
        IN  (RegistrationApplies(ref) /\ o # ref) =>
                /\ Registered(ref.view, RegisteredExpr(NodeIn(views, o))) >= 1
                /\ Registered(ref.view, RegisteredExpr(NodeIn(views, ref))) = 0

\* C18, amended: what is pushed is the node itself, its app element if it hosts
\* a view container and its render node otherwise; the outermost ng-container
\* above it only decides where it is pushed, and is itself pushed once, for
\* itself.
C18_RegistersNodeItself ==
    \A ref \in Leaves(views) :
        LET n == NodeIn(views, ref)
            o == OutermostOf(views, ref)
        IN  RegistrationApplies(ref) =>
                /\ (n.isElement /\ n.hasViewContainer)
                      => /\ Registered(ref.view, n.appElement) = 1
                         /\ Registered(ref.view, n.renderNode) = 0
                /\ ~(n.isElement /\ n.hasViewContainer)
                      => Registered(ref.view, n.renderNode) = 1
                /\ o # ref => Registered(ref.view, RegisteredExpr(NodeIn(views, o))) = 1

\* a host view: an ng-container at the top, below it an element that hosts a
\* view container; the root nodes are the container's anchor and the element's
\* app element
C18_Witness ==
    /\ views[1].viewType = "HOST"
    /\ Len(views[1].nodes) >= 2
    /\ views[1].nodes[1].sourceAst.name = "ng-container"
    /\ views[1].nodes[2].parent = ElRef(1, 0)
    /\ views[1].nodes[2].isElement
    /\ views[1].nodes[2].hasViewContainer
    /\ SubSeq(views[1].rootNodesOrAppElements, 1, 2)
          = <<views[1].nodes[1].renderNode, views[1].nodes[2].appElement>>

\* the entries of a root-node list that stand for nodes of the view
RECURSIVE NodeEntries(_)
NodeEntries(entries) ==
    IF Len(entries) = 0 THEN <<>>
    ELSE (IF Head(entries).e = "projectableNodes.key" THEN <<>> ELSE <<Head(entries)>>)
         \o NodeEntries(Tail(entries))

\* what the nodes i.. of view v push as root nodes, in node order
RECURSIVE RootNodesFrom(_, _)
RootNodesFrom(v, i) ==
    IF i > Len(views[v].nodes) THEN <<>>
    ELSE (IF ParentOf(views, OutermostOf(views, ElRef(v, i - 1))).view # v
          THEN <<RegisteredExpr(views[v].nodes[i])>> ELSE <<>>)
         \o RootNodesFrom(v, i + 1)

\* C19: once a view is built, its root-node list is empty if it is a component
\* view; if it is a host or embedded view, the list holds, in visit order, every
\* text, element and template anchor whose outermost container has its parent
\* outside the view, and no other node.
C19_RootNodes ==
    \A v \in DOMAIN rets :
        IF views[v].viewType = "COMPONENT"
        THEN views[v].rootNodesOrAppElements = <<>>
        ELSE NodeEntries(views[v].rootNodesOrAppElements) = RootNodesFrom(v, 1)

\* a host view: an element with a text inside, then a template anchor; the
\* element and the anchor are root nodes, the inner text is not
C19_Witness ==
    /\ 1 \in DOMAIN rets
    /\ views[1].viewType = "HOST"
    /\ Len(views[1].nodes) = 3
    /\ views[1].nodes[2].parent = ElRef(1, 0)
    /\ views[1].nodes[3].sourceAst.kind = "EmbeddedTemplate"
    /\ views[1].rootNodesOrAppElements
          = <<views[1].nodes[1].renderNode, views[1].nodes[3].appElement>>

\* the first ancestor, from p upwards, that is no ng-container of view v
RECURSIVE FirstNonContainer(_, _)
FirstNonContainer(p, v) ==
    IF IsContainerOf(views, p, v) THEN FirstNonContainer(ParentOf(views, p), v) ELSE p

\* the parent render node the creation statement of node i of view v was given
ParentRenderNodeGiven(v, i) ==
    LET created == { k \in 1..Len(views[v].createMethod) :
                       LET s == views[v].createMethod[k]
                       IN  \/ s.op = "createText" /\ s.debugNode = i
                           \/ s.op = "set" /\ s.value.debugNode = i }
        s == views[v].createMethod[CHOOSE k \in created : TRUE]
    IN  IF s.op = "createText" THEN s.parentRenderNode ELSE s.value.parentRenderNode

\* C20: the parent render node of a node is found by skipping the ng-container
\* ancestors of the view; if the ancestor reached is outside the view it is the
\* parentRenderNode variable in a component view and null in a host or embedded
\* view; if the ancestor is inside the view and hosts a component whose
\* encapsulation is not native it is null; else it is the ancestor's render
\* node.
C20_ParentRenderNode ==
    \A v \in 1..Len(views) : \A i \in 1..Len(views[v].nodes) :
        ~(i = 1 /\ views[v].viewType = "HOST" /\ views[v].nodes[i].sourceAst.kind = "Element") =>
            LET a == FirstNonContainer(views[v].nodes[i].parent, v)
                given == ParentRenderNodeGiven(v, i - 1)
            IN  IF a.view # v
                THEN given = (IF views[v].viewType = "COMPONENT" THEN parentRenderNodeVar
                              ELSE NULL_EXPR)
                ELSE IF /\ NodeIn(views, a).component.present
                        /\ NodeIn(views, a).component.encapsulation # "Native"
                THEN given = NULL_EXPR
                ELSE given = NodeIn(views, a).renderNode

\* a text inside an ng-container inside a component element with native
\* encapsulation: the text is created in the component element
C20_Witness ==
    /\ Len(views[1].nodes) = 3
    /\ views[1].nodes[1].isElement
    /\ views[1].nodes[1].component.present
    /\ views[1].nodes[1].component.encapsulation = "Native"
    /\ views[1].nodes[2].sourceAst.name = "ng-container"
    /\ views[1].nodes[2].parent = ElRef(1, 0)
    /\ views[1].nodes[3].sourceAst.kind = "Text"
    /\ views[1].nodes[3].parent = ElRef(1, 1)
    /\ ParentRenderNodeGiven(1, 2) = views[1].nodes[1].renderNode

\* the number of projected-node expressions in a list of expressions
RECURSIVE CountProjected(_)
CountProjected(entries) ==
    IF Len(entries) = 0 THEN 0
    ELSE (IF Head(entries).e = "projectableNodes.key" THEN 1 ELSE 0)
         + CountProjected(Tail(entries))

RECURSIVE CountProjectNodes(_)
CountProjectNodes(stmts) ==
    IF Len(stmts) = 0 THEN 0
    ELSE (IF Head(stmts).op = "projectNodes" THEN 1 ELSE 0) + CountProjectNodes(Tail(stmts))

RECURSIVE SumOver(_, _)
SumOver(f, n) == IF n = 0 THEN 0 ELSE f[n] + SumOver(f, n - 1)

\* the projected-node expressions in the buckets of the elements of view v
BucketCount(v) ==
    SumOver([i \in 1..Len(views[v].nodes) |->
               IF views[v].nodes[i].isElement
               THEN LET b == views[v].nodes[i].contentNodesByNgContentIndex
                    IN  SumOver([k \in 1..Len(b) |-> CountProjected(b[k])], Len(b))
               ELSE 0],
            Len(views[v].nodes))

\* the places the views hold for the outlets visited so far
OutletPlacements ==
    SumOver([v \in 1..Len(views) |->
               CountProjectNodes(views[v].createMethod)
               + CountProjected(views[v].rootNodesOrAppElements)
               + BucketCount(v)],
            Len(views))

OutletsVisited == Cardinality({ i \in 1..Len(tmpl) : tmpl[i].kind = "NgContent" })

\* C21: every ng-content outlet visited does exactly one of: emit a
\* project-nodes call, add its expression to the root-node list of the view,
\* add it to a content-projection bucket of the parent; none is dropped.
C21_OutletNeverDropped == OutletPlacements = OutletsVisited

\* the creation calls assigned to the render node of node n of view v
CreationsOf(v, n) ==
    { k \in 1..Len(views[v].createMethod) :
        /\ views[v].createMethod[k].op = "set"
        /\ views[v].createMethod[k].target = n.renderNode }

AttributesSetOn(v, n) ==
    { k \in 1..Len(views[v].createMethod) :
        /\ views[v].createMethod[k].op = "setElementAttribute"
        /\ views[v].createMethod[k].renderNode = n.renderNode }

\* C22: an element is created by selectOrCreateHostElement, with the root
\* selector, exactly when it is node 0 of a host view, whatever its name; else
\* by createTemplateAnchor when it is named ng-container; else by
\* createElement.  No attribute is set on an element named ng-container.
C22_CreationCall ==
    \A v \in 1..Len(views) : \A i \in 1..Len(views[v].nodes) :
        LET n == views[v].nodes[i]
        IN  n.sourceAst.kind = "Element" =>
              /\ Cardinality(CreationsOf(v, n)) = 1
              /\ LET c == views[v].createMethod[CHOOSE k \in CreationsOf(v, n) : TRUE].value
                 IN  IF i = 1 /\ views[v].viewType = "HOST"
                     THEN /\ c.op = "selectOrCreateHostElement"
                          /\ c.rootSelector = rootSelectorVar
                          /\ c.name = n.sourceAst.name
                     ELSE IF n.sourceAst.name = "ng-container"
                     THEN c.op = "createTemplateAnchor"
                     ELSE c.op = "createElement" /\ c.name = n.sourceAst.name
              /\ n.sourceAst.name = "ng-container" => AttributesSetOn(v, n) = {}

\* a host view whose node 0 is an ng-container with an attribute, holding
\* another ng-container with an attribute and a div with an attribute
C22_Witness ==
    /\ views[1].viewType = "HOST"
    /\ Len(views[1].nodes) = 3
    /\ \A i \in 1..3 : views[1].nodes[i].sourceAst.kind = "Element"
    /\ views[1].nodes[1].sourceAst.name = "ng-container"
    /\ views[1].nodes[2].sourceAst.name = "ng-container"
    /\ views[1].nodes[3].sourceAst.name = "div"
    /\ Len(views[1].createMethod) = 4
    /\ views[1].createMethod[1].value.op = "selectOrCreateHostElement"
    /\ views[1].createMethod[2].value.op = "createTemplateAnchor"
    /\ views[1].createMethod[3].value.op = "createElement"
    /\ views[1].createMethod[4].op = "setElementAttribute"

\* the position of the creation statement of node n in the create method of view v
CreatePos(v, n) ==
    CHOOSE k \in 1..Len(views[v].createMethod) :
        /\ views[v].createMethod[k].op \in {"createText", "set"}
        /\ views[v].createMethod[k].target = n.renderNode

\* positions of the statements of kind op on the nested component view of n
CompViewStmts(v, n, op) ==
    { k \in 1..Len(views[v].createMethod) :
        /\ views[v].createMethod[k].op = op
        /\ views[v].createMethod[k].var = n.compViewExpr }

\* the element at position idx of view v is still open: its children are being visited
IsOpen(v, idx) ==
    \E f \in 1..Len(stack) :
        stack[f].view = v /\ \E k \in 1..Len(stack[f].open) : stack[f].open[k] = idx

\* the nodes of view v below the node at position idx
DescendantsOf(v, idx) ==
    { j \in 0..(Len(views[v].nodes) - 1) :
        j # idx /\ ElRef(v, idx) \in AncestorsOrSelf(views, ElRef(v, j)) }

\* C23: for an element hosting a component the create method holds, in this
\* order, the element's creation, the instantiation of the nested component
\* view, the creations of the element's descendants in the view, and exactly
\* one create call on the nested view; the call passes the flattened
\* projection buckets, holding every child registered for projection, or the
\* projectable nodes of the caller when the view's component is a host wrapper.
C23_NestedViewCreate ==
    \A v \in 1..Len(views) : \A i \in 1..Len(views[v].nodes) :
        LET n == views[v].nodes[i]
            cm == views[v].createMethod
        IN  (n.sourceAst.kind = "Element" /\ n.component.present) =>
              /\ Cardinality(CompViewStmts(v, n, "declCompView")) = 1
              /\ \A kd \in CompViewStmts(v, n, "declCompView") :
                    /\ kd > CreatePos(v, n)
                    /\ \A j \in DescendantsOf(v, i - 1) :
                          CreatePos(v, views[v].nodes[j + 1]) > kd
              /\ IF IsOpen(v, i - 1)
                 THEN CompViewStmts(v, n, "create") = {}
                 ELSE /\ Cardinality(CompViewStmts(v, n, "create")) = 1
                      /\ LET ke == CHOOSE k \in CompViewStmts(v, n, "create") : TRUE
                         IN  /\ \A j \in DescendantsOf(v, i - 1) :
                                   CreatePos(v, views[v].nodes[j + 1]) < ke
                             /\ IF views[v].isHost
                                THEN cm[ke].contentNodes = ProjectableNodes
                                ELSE /\ cm[ke].contentNodes =
                                          [e |-> "literalArr",
                                           of |-> [b \in 1..Len(n.contentNodesByNgContentIndex) |->
                                                     createFlatArray(n.contentNodesByNgContentIndex[b])]]
                                     /\ \A j \in DescendantsOf(v, i - 1) :
                                          LET c == views[v].nodes[j + 1]
                                              o == OutermostOf(views, ElRef(v, j))
                                              at == NodeIn(views, o).sourceAst.ngContentIndex
                                          IN  (ParentOf(views, o) = ElRef(v, i - 1)
                                                  /\ isPresentIndex(at)) =>
                                                Occurrences(cm[ke].contentNodes.of[at + 1].of,
                                                            RegisteredExpr(c)) = 1

\* a component view: a component element holding an ng-container projected at
\* index 0 with a text inside; the create call passes both in bucket 0
C23_Witness ==
    /\ views[1].viewType = "COMPONENT"
    /\ Len(views[1].nodes) = 3
    /\ views[1].nodes[1].isElement /\ views[1].nodes[1].component.present
    /\ views[1].nodes[2].parent = ElRef(1, 0)
    /\ views[1].nodes[3].parent = ElRef(1, 1)
    /\ ~IsOpen(1, 0)
    /\ Len(views[1].createMethod) = 5
    /\ views[1].createMethod[2].op = "declCompView"
    /\ views[1].createMethod[5].op = "create"
    /\ views[1].createMethod[5].contentNodes.of[1].of
          = <<views[1].nodes[2].renderNode, views[1].nodes[3].renderNode>>

\* the view a value was added from
OriginOf(value) == added[CHOOSE i \in 1..Len(added) : added[i][1] = value][2]

\* a ValueTree node and everything below it mirror the nesting of the views
RECURSIVE Mirrors(_)
Mirrors(viewValues) ==
    \A i \in 1..Len(viewValues.values) :
        LET entry == viewValues.values[i]
        IN  IF IsViewQueryValues(entry)
            THEN /\ entry.view \in 1..Len(views)
                 /\ views[entry.view].viewType = "EMBEDDED"
                 /\ views[entry.view].declarationElement.view = viewValues.view
                 /\ Mirrors(entry)
            ELSE OriginOf(entry) = viewValues.view

\* the leaf values of a ValueTree node, left to right
RECURSIVE LeavesOf(_)
RECURSIVE LeavesFrom(_, _)
LeavesOf(viewValues) == LeavesFrom(viewValues.values, 1)
LeavesFrom(entries, i) ==
    IF i > Len(entries) THEN <<>>
    ELSE (IF IsViewQueryValues(entries[i]) THEN LeavesOf(entries[i]) ELSE <<entries[i]>>)
         \o LeavesFrom(entries, i + 1)

\* C24: after any sequence of addValue calls the ValueTree of the query mirrors
\* the nesting of the views: the root is of the owning view, every child node
\* is of an embedded view declared in the view of its parent node, and every
\* leaf sits in the node of the view it came from.
C24_TreeMirrorsViews ==
    query.view # 0 =>
        /\ query.values.view = query.view
        /\ Mirrors(query.values)
        /\ Len(LeavesOf(query.values)) = Len(added)

\* values of the owning view, of an embedded view and of a view nested in it
C24_Witness ==
    /\ Len(added) = 3
    /\ \E i, j, k \in 1..3 :
          /\ added[i][2] = query.view
          /\ views[added[j][2]].declarationElement.view = query.view
          /\ views[added[k][2]].declarationElement.view = added[j][2]
    /\ Len(query.values.values) >= 2

\* the names of the leaf expressions of a flattened list, left to right
RECURSIVE FlatNames(_)
RECURSIVE FlatNamesFrom(_, _)
FlatNames(exprs) == FlatNamesFrom(exprs, 1)
FlatNamesFrom(exprs, i) ==
    IF i > Len(exprs) THEN <<>>
    ELSE (IF exprs[i].e = "mapNestedViews" THEN FlatNames(exprs[i].body)
          ELSE <<exprs[i].name>>)
         \o FlatNamesFrom(exprs, i + 1)

\* C25: the leaf values of the ValueTree, left to right, and the values of the
\* flattened result are in the order of the addValue calls, also when the
\* values of an embedded view are interleaved with values of other views.
C25_LeavesInCallOrder ==
    query.view # 0 =>
        /\ LeavesOf(query.values) = [i \in 1..Len(added) |-> added[i][1]]
        /\ FlatNames(createQueryValues(views, query.values))
              = [i \in 1..Len(added) |-> added[i][1].name]

\* a value of an embedded view, then one of the owning view, then one of the
\* same embedded view: the embedded view has two nodes in the tree
C25_Witness ==
    /\ Len(added) = 3
    /\ added[1][2] # query.view
    /\ added[2][2] = query.view
    /\ added[3][2] = added[1][2]
    /\ Len(query.values.values) = 3
    /\ IsViewQueryValues(query.values.values[1])
    /\ IsViewQueryValues(query.values.values[3])
    /\ query.values.values[1].view = query.values.values[3].view

\* the body of the detect-changes method of a generated class, without the
\* variable declarations in front of it; empty when the class has no such method
DetectChangesBody(c) ==
    LET at == { k \in 1..Len(c.methods) : c.methods[k].name = "detectChangesInternal" }
        body == IF at = {} THEN <<>> ELSE c.methods[CHOOSE k \in at : TRUE].body
        RECURSIVE Statements(_)
        Statements(stmts) ==
            IF Len(stmts) = 0 THEN <<>>
            ELSE (IF Head(stmts).op = "declare" THEN <<>> ELSE <<Head(stmts)>>)
                 \o Statements(Tail(stmts))
    IN  Statements(body)

\* statements a and b, when not empty, inside one guard on throwOnChange
UnlessThrowOnChange(a, b) ==
    IF Len(a \o b) = 0 THEN <<>>
    ELSE <<[op |-> "if", condition |-> [e |-> "not", of |-> Variable("throwOnChange")],
            trueCase |-> a \o b]>>

\* C26: the detect-changes body is empty exactly when the seven buffers are
\* empty; otherwise it holds, in this order: animation bindings, input checks,
\* the detect-content-children call, content-query updates then after-content
\* callbacks inside one guard on throwOnChange, render-property checks, the
\* detect-view-children call, view-query updates then after-view callbacks
\* inside such a guard; both detect-children calls are in every non-empty body.
C26_DetectChangesOrder ==
    phase = "finished" =>
        \A i \in 1..Len(Classes) :
            LET view == views[ViewOfClass(Classes[i])]
                body == DetectChangesBody(Classes[i])
            IN  /\ body = <<>> <=>
                      \A k \in 1..Len(AllDetectChangesMethods) :
                          view[AllDetectChangesMethods[k]] = <<>>
                /\ body # <<>> =>
                      /\ body = view.animationBindingsMethod
                                \o view.detectChangesInInputsMethod
                                \o <<[op |-> "detectContentChildrenChanges"]>>
                                \o UnlessThrowOnChange(view.updateContentQueriesMethod,
                                                       view.afterContentLifecycleCallbacksMethod)
                                \o view.detectChangesRenderPropertiesMethod
                                \o <<[op |-> "detectViewChildrenChanges"]>>
                                \o UnlessThrowOnChange(view.updateViewQueriesMethod,
                                                       view.afterViewLifecycleCallbacksMethod)
                      /\ Len(SelectOp(body, "detectContentChildrenChanges")) = 1
                      /\ Len(SelectOp(body, "detectViewChildrenChanges")) = 1

\* animation bindings, after-content callbacks and render-property checks only:
\* the body is the binding, the content call, one guard, the check, the view call
C26_Witness ==
    /\ phase = "finished"
    /\ Len(Classes) = 1
    /\ views[1].animationBindingsMethod # <<>>
    /\ views[1].afterContentLifecycleCallbacksMethod # <<>>
    /\ views[1].detectChangesRenderPropertiesMethod # <<>>
    /\ views[1].detectChangesInInputsMethod = <<>>
    /\ views[1].updateViewQueriesMethod = <<>>
    /\ views[1].afterViewLifecycleCallbacksMethod = <<>>
    /\ Len(DetectChangesBody(Classes[1])) = 5

(***************************************************************************)
(* Properties of the emitter                                               *)
(***************************************************************************)
\* an output AST node holds something the emitter cannot print: an identifier
\* without a name, a builtin type or a builtin method of unknown tag, or it is
\* no statement, expression or type at all
RECURSIVE CannotPrint(_)
CannotPrint(ast) ==
    CASE ast = null -> FALSE
      [] ast.ast = "Object" -> TRUE
      [] ast.node = "BuiltinType" ->
            ast.name \notin {"Bool", "Dynamic", "Function", "Number", "Int", "String"}
      [] ast.node \in {"ExternalType", "ExternalExpr"} ->
            \/ ast.value.name = absent
            \/ \E k \in 1..Len(ast.typeParams) : CannotPrint(ast.typeParams[k])
      [] ast.node = "ArrayType" -> CannotPrint(ast.of)
      [] ast.node = "MapType" -> CannotPrint(ast.valueType)
      [] ast.node = "LiteralExpr" -> FALSE
      [] ast.node = "CastExpr" -> CannotPrint(ast.type) \/ CannotPrint(ast.value)
      [] ast.node = "InvokeMethodExpr" ->
            \/ CannotPrint(ast.receiver)
            \/ ast.builtin \notin {"ConcatArray", "SubscribeObservable", "Bind"}
      [] ast.node = "DeclareVarStmt" -> CannotPrint(ast.type) \/ CannotPrint(ast.value)

\* C27: the emitter ends with an error and returns no text when it has to
\* print an identifier without a name, a builtin type or builtin method of
\* unknown tag or, in the debug printer, an object that is no statement,
\* expression or type; for every other input it returns the text.
C27_EmitterAborts ==
    emitter.result # "running" =>
        /\ emitter.result = "thrown" <=>
              \E i \in 1..Len(emitter.asts) : CannotPrint(emitter.asts[i])
        /\ emitter.result = "thrown" => emitter.source = <<>> /\ emitter.ctx.error # ""
        /\ emitter.result = "returned" =>
              /\ Len(emitter.source) >= Len(emitter.ctx.text)
              /\ emitter.ctx.error = ""
              /\ emitter.at = Len(emitter.asts) + 1

\* a statement was printed, then a type of unknown tag ended the call: the
\* text printed so far is not returned
C27_Witness ==
    /\ emitter.result = "thrown"
    /\ Len(emitter.asts) = 2
    /\ ~CannotPrint(emitter.asts[1])
    /\ emitter.asts[2] = BuiltinType("Inferred")
    /\ emitter.ctx.text # <<>>
    /\ emitter.source = <<>>

(***************************************************************************)
(* Properties of the key events plugin                                     *)
(***************************************************************************)
ModifierNames == { modifierKeys[i] : i \in 1..Len(modifierKeys) }

\* the parts of the name in lower case
LowerParts == [i \in 1..Len(keyEvents.eventName) |-> toLowerCase(keyEvents.eventName[i])]

\* the name is keydown or keyup, then modifiers, each at most once, then a key
WellFormedName ==
    LET n == Len(LowerParts)
    IN  /\ n >= 2
        /\ LowerParts[1] \in {"keydown", "keyup"}
        /\ LowerParts[n] # ""
        /\ \A i \in 2..(n - 1) :
              /\ LowerParts[i] \in ModifierNames
              /\ \A j \in 2..(n - 1) : LowerParts[j] = LowerParts[i] => j = i

\* C28: parseEventName returns null for a name whose DOM event is not keydown
\* or keyup, that has no part after the DOM event, whose key part is empty, or
\* that has a part left over that is neither the key nor a modifier (a
\* modifier written twice included); for every other name it returns the DOM
\* event name and a full key; supports is true exactly when it is not null.
C28_ParseNullOnInvalid ==
    keyEvents.supported # "unknown" =>
        LET parsed == parseEventName(keyEvents.eventName)
        IN  /\ parsed.isNull <=> ~WellFormedName
            /\ ~parsed.isNull =>
                  /\ parsed.domEventName = LowerParts[1]
                  /\ parsed.fullKey # ""
            /\ keyEvents.supported = "yes" <=> ~parsed.isNull
            /\ ~keyEvents.listener.isNull => keyEvents.listener = parsed

\* keydown.alt.alt.a: one alt is left over, the name is not supported
C28_Witness ==
    /\ keyEvents.eventName = <<"keydown", "alt", "alt", "a">>
    /\ keyEvents.supported = "no"

\* the key and the modifiers the name asks for
KeyOfName ==
    LET k == LowerParts[Len(LowerParts)] IN IF k = "esc" THEN "escape" ELSE k
ModifiersOfName == { LowerParts[i] : i \in 2..(Len(LowerParts) - 1) }

\* the key of the last event, as event names write it, and its modifiers
KeyOfEvent ==
    LET k == toLowerCase(keyEvents.event.key)
    IN  IF k = " " THEN "space" ELSE IF k = "." THEN "dot" ELSE k
PressedInEvent ==
    (IF keyEvents.event.altKey THEN {"alt"} ELSE {})
        \cup (IF keyEvents.event.ctrlKey THEN {"control"} ELSE {})
        \cup (IF keyEvents.event.metaKey THEN {"meta"} ELSE {})
        \cup (IF keyEvents.event.shiftKey THEN {"shift"} ELSE {})

\* C29 as stated: the handler of an accepted name runs for exactly the events
\* of its DOM event type whose key is the key of the name and whose pressed
\* modifiers are the modifiers of the name, in whatever order and case the
\* name writes them; for these the two full keys are equal.
C29_HandlerRunsOnExactMatch ==
    (~keyEvents.listener.isNull /\ keyEvents.event # NoEvent) =>
        LET matches == /\ keyEvents.event.type = LowerParts[1]
                       /\ KeyOfEvent = KeyOfName
                       /\ PressedInEvent = ModifiersOfName
        IN  /\ keyEvents.ran <=> matches
            /\ matches => getEventFullKey(keyEvents.event) = keyEvents.listener.fullKey

\* C29, amended: as above, where a pressed modifier that is the key of the
\* event itself does not count as a modifier of the event.
C29_HandlerRunsOnMatchBesidesKey ==
    (~keyEvents.listener.isNull /\ keyEvents.event # NoEvent) =>
        LET matches == /\ keyEvents.event.type = LowerParts[1]
                       /\ KeyOfEvent = KeyOfName
                       /\ PressedInEvent \ {KeyOfEvent} = ModifiersOfName
        IN  /\ keyEvents.ran <=> matches
            /\ matches => getEventFullKey(keyEvents.event) = keyEvents.listener.fullKey

\* KeyUp.Shift.alt.esc and a keyup of Escape with alt and shift pressed: the
\* handler runs, the full key is alt.shift.escape
C29_Witness ==
    /\ keyEvents.eventName = <<"KeyUp", "Shift", "alt", "esc">>
    /\ keyEvents.event = KeyboardEvent("keyup", "Escape", TRUE, FALSE, FALSE, TRUE)
    /\ keyEvents.listener.fullKey = "alt.shift.escape"
    /\ keyEvents.ran
====
